---- MODULE Spec2Model ----
(***************************************************************************)
(* ring_span: a non-owning ring buffer over caller-owned storage.          *)
(*                                                                         *)
(* Two implementations are modelled side by side:                          *)
(*   ring.h       (index helpers; adjusts the indices, then assigns)       *)
(*   ring_span.h  (assigns, then adjusts the indices); suffix _rs          *)
(* A reference is modelled as the index of the slot it designates, the     *)
(* backing storage as a function from slot index to element value.         *)
(***************************************************************************)
EXTENDS Integers, Sequences, FiniteSets, TLC

\* ------------------------------------------------------------------ bounds
MaxCapacity == 3      \* largest backing array
MaxResources == 6     \* unique_ptr resources created in one run
MaxVal == 2           \* int values pushed are 1..MaxVal
MaxViewOps == 4       \* calls made in a run over two rings

\* --------------------------------------------------------------- elements
Null == 0             \* an empty unique_ptr (also the value-initialised int)

Void == -1            \* a pop that produces no value (void)

ElemTypes == {"int", "unique_ptr"}

\* T& = U&& for T in ElemTypes: the slot takes v; a unique_ptr first releases
\* the resource it owned.
Assign(T, buf, i, v) ==
    [buf |-> [buf EXCEPT ![i] = v],
     rel |-> IF T = "unique_ptr" /\ buf[i] # Null THEN <<buf[i]>> ELSE <<>>]

\* ---------------------------------------------------------------- poppers
\* a discarding popper that also resets the slot
null_popper_resets(T, t) == [ret |-> Void, slot |-> Null]

null_popper(T, t) == [ret |-> Void, slot |-> t]

\* a popper that copies the value out and leaves the slot owning it
move_popper_copies(T, t) == [ret |-> t, slot |-> t]

move_popper(T, t) == [ret |-> t, slot |-> IF T = "unique_ptr" THEN Null ELSE t]

\* a copying popper that forgets to write the sentinel
copy_popper_keeps(t_, t) == [ret |-> t, slot |-> t]

copy_popper(t_, t) == [ret |-> t, slot |-> t_]

\* popper_(elt): the call through the ring's Popper member
popper_(T, p, t) ==
    CASE p.kind = "null" -> null_popper(T, t)
      [] p.kind = "move" -> move_popper(T, t)
      [] p.kind = "copy" -> copy_popper(p.t_, t)

\* ------------------------------------------------------------ constructors
ring_span_full(cap, p) ==
    [size_ |-> cap, capacity_ |-> cap, front_idx_ |-> 0, popper_ |-> p]

ring_span_partial(cap, first, sz, p) ==
    [size_ |-> sz, capacity_ |-> cap, front_idx_ |-> first, popper_ |-> p]

\* ---------------------------------------------------------------- queries
empty(rv) == rv.size_ = 0

full(rv) == rv.size_ = rv.capacity_

size(rv) == rv.size_

capacity(rv) == rv.capacity_

\* positions counted from slot 0 instead of from the front
at_from_zero(rv, i) == i % rv.capacity_

\* at(i): the slot a cursor at logical position i dereferences to
at(rv, i) == (rv.front_idx_ + i) % rv.capacity_

\* cursors are their logical position idx_
begin(rv) == 0

end(rv) == size(rv)

front(rv) == at(rv, begin(rv))

back(rv) == at(rv, end(rv) - 1)

\* ------------------------------------------------- ring.h private helpers
front_(rv) == rv.front_idx_

\* the slot one past the newest element
back_past_the_end(rv) == (rv.front_idx_ + rv.size_) % rv.capacity_

back_(rv) == (rv.front_idx_ + rv.size_ - 1) % rv.capacity_

\* advancing the front without giving up the element
increment_front_keeps_size(rv) ==
    [rv EXCEPT !.front_idx_ = (rv.front_idx_ + 1) % rv.capacity_]

increment_front_(rv) ==
    [rv EXCEPT !.front_idx_ = (rv.front_idx_ + 1) % rv.capacity_,
               !.size_ = rv.size_ - 1]

\* stepping the front back without wrapping below slot 0
decrement_front_no_wrap(rv) ==
    [rv EXCEPT !.front_idx_ = IF rv.front_idx_ = 0 THEN 0 ELSE rv.front_idx_ - 1,
               !.size_ = rv.size_ + 1]

decrement_front_(rv) ==
    [rv EXCEPT !.front_idx_ = (rv.front_idx_ + rv.capacity_ - 1) % rv.capacity_,
               !.size_ = rv.size_ + 1]

increment_back_(rv) == [rv EXCEPT !.size_ = rv.size_ + 1]

decrement_back_(rv) == [rv EXCEPT !.size_ = rv.size_ - 1]

\* rotating a full ring and growing it as well
increment_front_and_back_grows(rv) ==
    [rv EXCEPT !.front_idx_ = (rv.front_idx_ + 1) % rv.capacity_,
               !.size_ = rv.size_ + 1]

increment_front_and_back_(rv) ==
    [rv EXCEPT !.front_idx_ = (rv.front_idx_ + 1) % rv.capacity_]

\* a full ring whose front does not move on push_front
decrement_front_and_back_stays(rv) == rv

decrement_front_and_back_(rv) ==
    [rv EXCEPT !.front_idx_ = (rv.front_idx_ + rv.capacity_ - 1) % rv.capacity_]

\* ------------------------------------------------------ ring.h operations
\* Each yields the ring afterwards, the storage afterwards, the slot it
\* touched, the value returned and the resources released by the assignment.
\* a pop_front that runs the popper on the element a second time
pop_front_pops_twice(T, rv, buf) ==
    LET elt == front_(rv)
        rv1 == increment_front_(rv)
        p1  == popper_(T, rv1.popper_, buf[elt])
        p   == popper_(T, rv1.popper_, p1.slot)
    IN  [rv |-> rv1, buf |-> [buf EXCEPT ![elt] = p.slot], slot |-> elt,
         ret |-> p.ret, rel |-> <<>>]

pop_front(T, rv, buf) ==
    LET elt == front_(rv)
        rv1 == increment_front_(rv)
        p   == popper_(T, rv1.popper_, buf[elt])
    IN  [rv |-> rv1, buf |-> [buf EXCEPT ![elt] = p.slot], slot |-> elt,
         ret |-> p.ret, rel |-> <<>>]

\* a pop_back that takes the element at the front
pop_back_takes_front(T, rv, buf) ==
    LET elt == front_(rv)
        rv1 == increment_front_(rv)
        p   == popper_(T, rv1.popper_, buf[elt])
    IN  [rv |-> rv1, buf |-> [buf EXCEPT ![elt] = p.slot], slot |-> elt,
         ret |-> p.ret, rel |-> <<>>]

pop_back(T, rv, buf) ==
    LET elt == back_(rv)
        rv1 == decrement_back_(rv)
        p   == popper_(T, rv1.popper_, buf[elt])
    IN  [rv |-> rv1, buf |-> [buf EXCEPT ![elt] = p.slot], slot |-> elt,
         ret |-> p.ret, rel |-> <<>>]

push_back(T, rv, buf, value) ==
    LET rv1 == IF full(rv) THEN increment_front_and_back_(rv)
                           ELSE increment_back_(rv)
        a   == Assign(T, buf, back_(rv1), value)
    IN  [rv |-> rv1, buf |-> a.buf, slot |-> back_(rv1), ret |-> Void,
         rel |-> a.rel]

push_front(T, rv, buf, value) ==
    LET rv1 == IF full(rv) THEN decrement_front_and_back_(rv)
                           ELSE decrement_front_(rv)
        a   == Assign(T, buf, front_(rv1), value)
    IN  [rv |-> rv1, buf |-> a.buf, slot |-> front_(rv1), ret |-> Void,
         rel |-> a.rel]

\* ------------------------------------------------- ring_span.h operations
\* the back index taken from the size alone
back_idx_from_zero(rv) == rv.size_ % rv.capacity_

back_idx(rv) == (rv.front_idx_ + rv.size_) % rv.capacity_

\* a pop_front that advances the front and forgets the size
pop_front_rs_keeps_size(T, rv, buf) ==
    LET old_front_idx == rv.front_idx_
        rv1 == [rv EXCEPT !.front_idx_ = (rv.front_idx_ + 1) % rv.capacity_]
        p   == popper_(T, rv1.popper_, buf[old_front_idx])
    IN  [rv |-> rv1, buf |-> [buf EXCEPT ![old_front_idx] = p.slot],
         slot |-> old_front_idx, ret |-> p.ret, rel |-> <<>>]

pop_front_rs(T, rv, buf) ==
    LET old_front_idx == rv.front_idx_
        rv1 == [rv EXCEPT !.front_idx_ = (rv.front_idx_ + 1) % rv.capacity_,
                          !.size_ = rv.size_ - 1]
        p   == popper_(T, rv1.popper_, buf[old_front_idx])
    IN  [rv |-> rv1, buf |-> [buf EXCEPT ![old_front_idx] = p.slot],
         slot |-> old_front_idx, ret |-> p.ret, rel |-> <<>>]

pop_back_rs(T, rv, buf) ==
    LET old_back_idx == (rv.front_idx_ + rv.size_ - 1) % rv.capacity_
        rv1 == [rv EXCEPT !.size_ = rv.size_ - 1]
        p   == popper_(T, rv1.popper_, buf[old_back_idx])
    IN  [rv |-> rv1, buf |-> [buf EXCEPT ![old_back_idx] = p.slot],
         slot |-> old_back_idx, ret |-> p.ret, rel |-> <<>>]

\* a push_back that assigns but never rotates a full ring
push_back_rs_no_rotate(T, rv, buf, value) ==
    LET a   == Assign(T, buf, back_idx(rv), value)
        rv1 == IF ~full(rv) THEN [rv EXCEPT !.size_ = rv.size_ + 1] ELSE rv
    IN  [rv |-> rv1, buf |-> a.buf, slot |-> back_idx(rv), ret |-> Void,
         rel |-> a.rel]

push_back_rs(T, rv, buf, value) ==
    LET a   == Assign(T, buf, back_idx(rv), value)
        rv1 == IF ~full(rv)
               THEN [rv EXCEPT !.size_ = rv.size_ + 1]
               ELSE [rv EXCEPT !.front_idx_ = (rv.front_idx_ + 1) % rv.capacity_]
    IN  [rv |-> rv1, buf |-> a.buf, slot |-> back_idx(rv), ret |-> Void,
         rel |-> a.rel]

\* a push_front that assigns the front slot before it moves the front back
push_front_rs_assigns_first(T, rv, buf, value) ==
    LET a   == Assign(T, buf, rv.front_idx_, value)
        rv1 == [rv EXCEPT !.front_idx_ =
                              (rv.front_idx_ + rv.capacity_ - 1) % rv.capacity_]
        rv2 == IF ~full(rv1) THEN [rv1 EXCEPT !.size_ = rv1.size_ + 1] ELSE rv1
    IN  [rv |-> rv2, buf |-> a.buf, slot |-> rv.front_idx_, ret |-> Void,
         rel |-> a.rel]

push_front_rs(T, rv, buf, value) ==
    LET rv1 == [rv EXCEPT !.front_idx_ =
                              (rv.front_idx_ + rv.capacity_ - 1) % rv.capacity_]
        a   == Assign(T, buf, rv1.front_idx_, value)
        rv2 == IF ~full(rv1) THEN [rv1 EXCEPT !.size_ = rv1.size_ + 1] ELSE rv1
    IN  [rv |-> rv2, buf |-> a.buf, slot |-> rv1.front_idx_, ret |-> Void,
         rel |-> a.rel]

\* ------------------------------------------- ring_span.h try_ functions
\* a try_push_back that pushes whether or not the ring is full
try_push_back_always(T, rv, buf, value) ==
    [push_back_rs(T, rv, buf, value) EXCEPT !.ret = TRUE]

try_push_back(T, rv, buf, value) ==
    IF full(rv)
    THEN [rv |-> rv, buf |-> buf, slot |-> Void, ret |-> FALSE, rel |-> <<>>]
    ELSE [push_back_rs(T, rv, buf, value) EXCEPT !.ret = TRUE]

\* a try_pop_front that takes the element from the wrong end
try_pop_front_from_back(T, rv, buf) ==
    IF empty(rv)
    THEN [rv |-> rv, buf |-> buf, slot |-> Void, ret |-> FALSE, popped |-> Void]
    ELSE LET r == pop_back_rs(T, rv, buf)
         IN  [rv |-> r.rv, buf |-> r.buf, slot |-> r.slot, ret |-> TRUE,
              popped |-> r.ret]

\* popped is the value r.pop_front() produced, which the function drops
try_pop_front(T, rv, buf) ==
    IF empty(rv)
    THEN [rv |-> rv, buf |-> buf, slot |-> Void, ret |-> FALSE, popped |-> Void]
    ELSE LET r == pop_front_rs(T, rv, buf)
         IN  [rv |-> r.rv, buf |-> r.buf, slot |-> r.slot, ret |-> TRUE,
              popped |-> r.ret]

\* ------------------------------------------------------- copy and swap
\* a ring_span as a value that also carries its storage pointer
ring_span_over(data, r) ==
    [data_ |-> data, size_ |-> r.size_, capacity_ |-> r.capacity_,
     front_idx_ |-> r.front_idx_, popper_ |-> r.popper_]

\* a copy that views the whole array again instead of the source's window
ring_span_copy_rewinds(r) ==
    [data_ |-> r.data_, size_ |-> r.size_, capacity_ |-> r.capacity_,
     front_idx_ |-> 0, popper_ |-> r.popper_]

\* auto Q2 = Q: the implicit memberwise copy
ring_span_copy(r) ==
    [data_ |-> r.data_, size_ |-> r.size_, capacity_ |-> r.capacity_,
     front_idx_ |-> r.front_idx_, popper_ |-> r.popper_]

\* a swap that leaves the capacities where they were
swap_keeps_capacity(lhs, rhs) ==
    [lhs |-> [data_ |-> rhs.data_, size_ |-> rhs.size_,
              capacity_ |-> lhs.capacity_, front_idx_ |-> rhs.front_idx_,
              popper_ |-> rhs.popper_],
     rhs |-> [data_ |-> lhs.data_, size_ |-> lhs.size_,
              capacity_ |-> rhs.capacity_, front_idx_ |-> lhs.front_idx_,
              popper_ |-> lhs.popper_]]

swap(lhs, rhs) ==
    [lhs |-> [data_ |-> rhs.data_, size_ |-> rhs.size_,
              capacity_ |-> rhs.capacity_, front_idx_ |-> rhs.front_idx_,
              popper_ |-> rhs.popper_],
     rhs |-> [data_ |-> lhs.data_, size_ |-> lhs.size_,
              capacity_ |-> lhs.capacity_, front_idx_ |-> lhs.front_idx_,
              popper_ |-> lhs.popper_]]

\* -------------------------------------------------------------- cursors
\* detail::ring_iterator: a cursor is its logical position idx_ (the ring it
\* points into is implied); the operators return the new position
iter_deref(r, i) == at(r, i)

iter_inc(i) == i + 1

\* operator-- as written in all three headers
iter_dec(i) == i + 1

iter_add(i, n) == i + n

iter_sub(i, n) == i - n

\* the comparison operators of two cursors a, b (idx_ and the ring rv_ each
\* points into): the result, and how the call ended
CmpOps == {"==", "!=", "<", "<=", ">", ">="}

iter_compare(cmp, a, b) ==
    [ret   |-> CASE cmp = "==" -> a.idx_ = b.idx_
                 [] cmp = "!=" -> a.idx_ # b.idx_
                 [] cmp = "<"  -> a.idx_ < b.idx_
                 [] cmp = "<=" -> a.idx_ <= b.idx_
                 [] cmp = ">"  -> a.idx_ > b.idx_
                 [] cmp = ">=" -> a.idx_ >= b.idx_,
     fault |-> "none"]

\* the const queries and the cursor factories, as calls: the ring and the
\* storage they leave behind, and the result (a slot for front() and back(),
\* a position for begin() and end())
QueryNames ==
    {"size", "capacity", "empty", "full", "front", "back", "begin", "end"}

\* a front() that gives the element up
query_consumes(q, r, buf) ==
    [rv  |-> IF q = "front"
             THEN [r EXCEPT !.front_idx_ = (r.front_idx_ + 1) % r.capacity_,
                            !.size_ = r.size_ - 1]
             ELSE r,
     buf |-> buf,
     ret |-> CASE q = "size" -> size(r)
               [] q = "capacity" -> capacity(r)
               [] q = "empty" -> empty(r)
               [] q = "full" -> full(r)
               [] q = "front" -> front(r)
               [] q = "back" -> back(r)
               [] q = "begin" -> begin(r)
               [] q = "end" -> end(r)]

query(q, r, buf) ==
    [rv  |-> r,
     buf |-> buf,
     ret |-> CASE q = "size" -> size(r)
               [] q = "capacity" -> capacity(r)
               [] q = "empty" -> empty(r)
               [] q = "full" -> full(r)
               [] q = "front" -> front(r)
               [] q = "back" -> back(r)
               [] q = "begin" -> begin(r)
               [] q = "end" -> end(r)]

\* std::reverse_iterator over a cursor: it holds a cursor `current`, rbegin()
\* wraps end() and rend() wraps begin(); *ri is *--tmp on a copy tmp of
\* current, ++ri is --current, and ri != rj compares the two currents
rbegin(r) == end(r)

rend(r) == begin(r)

reverse_deref(r, current) == iter_deref(r, iter_dec(current))

reverse_position(current) == iter_dec(current)

reverse_inc(current) == iter_dec(current)

\* ------------------------------------------------------------- traversal
\* for (auto&& elt : rv): from begin(), while it != end(), *it then ++it
RECURSIVE range_for(_, _, _)
range_for(rv, buf, it) ==
    IF it # end(rv)
    THEN <<buf[at(rv, it)]>> \o range_for(rv, buf, it + 1)
    ELSE <<>>

rv_to_string(rv, buf) == range_for(rv, buf, begin(rv))

\* ------------------------------------------------------------- heap_span
\* heap_span.h: data_, size_, capacity_ and the comparator less_ (std::less),
\* the heap over data_[0 .. size_)
heap_span_partial(cap, sz) == [size_ |-> sz, capacity_ |-> cap]

less_(x, y) == x < y

parent_(child) == (child - 1) \div 2

left_child_(parent) == parent * 2 + 1

right_child_(parent) == parent * 2 + 2

\* swap(data_[i], data_[j])
swap_elts(buf, i, j) == [buf EXCEPT ![i] = buf[j], ![j] = buf[i]]

\* the loop of heapify_up_ with idx where it stands
RECURSIVE heapify_up_loop(_, _)
heapify_up_loop(buf, idx) ==
    IF idx # 0
    THEN IF less_(buf[idx], buf[parent_(idx)])
         THEN heapify_up_loop(swap_elts(buf, idx, parent_(idx)), parent_(idx))
         ELSE buf
    ELSE buf

heapify_up_(h, buf) == heapify_up_loop(buf, h.size_ - 1)

\* a heapify_down_ that only ever looks at the left child
RECURSIVE heapify_down_left_only(_, _, _)
heapify_down_left_only(h, buf, idx) ==
    IF left_child_(idx) < h.size_ /\ less_(buf[left_child_(idx)], buf[idx])
    THEN heapify_down_left_only(h, swap_elts(buf, idx, left_child_(idx)),
                                left_child_(idx))
    ELSE buf

\* the loop of heapify_down_ with idx where it stands, and the test of the
\* lone left child after it
RECURSIVE heapify_down_loop(_, _, _)
heapify_down_loop(h, buf, idx) ==
    LET left  == left_child_(idx)
        right == right_child_(idx)
    IN  IF right < h.size_
        THEN IF less_(buf[left], buf[idx])
             THEN IF less_(buf[right], buf[left])
                  THEN heapify_down_loop(h, swap_elts(buf, idx, right), right)
                  ELSE heapify_down_loop(h, swap_elts(buf, idx, left), left)
             ELSE IF less_(buf[right], buf[idx])
                  THEN heapify_down_loop(h, swap_elts(buf, idx, right), right)
                  ELSE buf
        ELSE IF left < h.size_ /\ less_(buf[left], buf[idx])
             THEN swap_elts(buf, idx, left)
             ELSE buf

heapify_down_(h, buf) == heapify_down_loop(h, buf, 0)

\* heapify_: size_ from 0 up to final_size, heapify_up_ after each step
RECURSIVE heapify_loop(_, _, _)
heapify_loop(h, buf, final_size) ==
    IF h.size_ # final_size
    THEN LET h1 == [h EXCEPT !.size_ = h.size_ + 1]
         IN  heapify_loop(h1, heapify_up_(h1, buf), final_size)
    ELSE [rv |-> h, buf |-> buf]

heapify_(h, buf) == heapify_loop([h EXCEPT !.size_ = 0], buf, h.size_)

make_heap(h, buf) == heapify_(h, buf)

top(h) == 0

pop(h, buf) ==
    IF h.size_ = 1
    THEN [rv |-> [h EXCEPT !.size_ = 0], buf |-> buf]
    ELSE LET buf1 == [buf EXCEPT ![0] = buf[h.size_ - 1]]
             h1   == [h EXCEPT !.size_ = h.size_ - 1]
         IN  [rv |-> h1, buf |-> heapify_down_(h1, buf1)]

push(h, buf, value) ==
    IF full(h)
    THEN [rv |-> h, buf |-> heapify_down_(h, [buf EXCEPT ![0] = value])]
    ELSE LET h1 == [h EXCEPT !.size_ = h.size_ + 1]
         IN  [rv |-> h1,
              buf |-> heapify_up_(h1, [buf EXCEPT ![h.size_] = value])]

\* emplace builds T(args...) and goes on as push does
emplace(h, buf, value) ==
    IF full(h)
    THEN [rv |-> h, buf |-> heapify_down_(h, [buf EXCEPT ![0] = value])]
    ELSE LET h1 == [h EXCEPT !.size_ = h.size_ + 1]
         IN  [rv |-> h1,
              buf |-> heapify_up_(h1, [buf EXCEPT ![h.size_] = value])]

\* ------------------------------------------------------------------ state
VARIABLES
    impl,       \* which header the ring comes from
    T,          \* the element type
    rv,         \* the ring_span: size_, capacity_, front_idx_, popper_
    buffer,     \* the caller's array the ring views
    created,    \* resources made so far (ids 1..created)
    released,   \* resources destroyed so far, in order of destruction
    cleared,    \* the ring is out of scope and the array has been emptied
    last,       \* the call just made: its arguments, pre-state and result
    ref,        \* a bounded deque run beside the ring
    stale,      \* slots vacated by a pop and not assigned since
    fault,      \* how the program stopped: "none" while it runs
    it,         \* a cursor into rv: its logical position idx_
    rings,      \* several ring_spans by name, each with its data_ pointer
    arrays,     \* the arrays those data_ pointers designate
    nops,       \* calls made on rings so far
    pc,         \* where each thread stands in its code
    mutex,      \* the thread that holds std::mutex m, or "free"
    waiting,    \* the threads blocked in cv.wait
    regs        \* each thread's locals

vars == <<impl, T, rv, buffer, created, released, cleared, last, ref, stale,
          fault, it, rings, arrays, nops, pc, mutex, waiting, regs>>

\* the threads of a program that has any
threads == <<pc, mutex, waiting, regs>>

\* the state outside a single ring and its array
others == <<fault, it, rings, arrays, nops, threads>>

\* a single-threaded program
NoThreads == pc = <<>> /\ mutex = "free" /\ waiting = {} /\ regs = <<>>

\* no fault, a cursor at begin(), no further rings, no threads
Parked ==
    /\ fault = "none" /\ it = 0 /\ rings = <<>> /\ arrays = <<>> /\ nops = 0
    /\ NoThreads

Impls == {"ring.h", "ring_span.h"}

Sentinels == {Null, MaxVal + MaxCapacity + 1}

\* the poppers each header offers for element type t
Poppers(i, t) ==
    {[kind |-> "null", t_ |-> Null], [kind |-> "move", t_ |-> Null]}
    \cup (IF i = "ring_span.h" /\ t = "int"
          THEN {[kind |-> "copy", t_ |-> s] : s \in Sentinels}
          ELSE {})

Slots(cap) == 0 .. cap - 1

\* the caller's array at construction: the elements of the initial window are
\* 1, 2, ... oldest first, every other slot is value-initialised
InitBuffer(cap, first, sz) ==
    [i \in Slots(cap) |->
        LET k == (i + cap - first) % cap IN IF k < sz THEN k + 1 ELSE Null]

Init ==
    /\ impl \in Impls
    /\ T \in ElemTypes
    /\ \E cap \in 1 .. MaxCapacity, p \in Poppers(impl, T) :
          \/ /\ rv = ring_span_full(cap, p)
             /\ buffer = InitBuffer(cap, 0, cap)
          \/ \E first \in Slots(cap), sz \in 0 .. cap :
                /\ rv = ring_span_partial(cap, first, sz, p)
                /\ buffer = InitBuffer(cap, first, sz)
    /\ created = IF T = "unique_ptr" THEN rv.size_ ELSE 0
    /\ released = <<>>
    /\ cleared = FALSE
    /\ last = [op |-> "none", v |-> Null, rv |-> rv, buf |-> buffer,
               ret |-> Void, rel |-> <<>>]
    /\ ref = rv_to_string(rv, buffer)
    /\ stale = {}
    /\ Parked

\* the values a caller may push: any small int, or a freshly made
\* unique_ptr
PushValues ==
    IF T = "int" THEN 1 .. MaxVal
    ELSE IF created < MaxResources THEN {created + 1} ELSE {}

\* the bounded deque: a push on a full deque drops the element at the far end
ref_push_back(q, cap, v) ==
    IF Len(q) = cap THEN Tail(q) \o <<v>> ELSE q \o <<v>>

ref_push_front(q, cap, v) ==
    IF Len(q) = cap THEN <<v>> \o SubSeq(q, 1, cap - 1) ELSE <<v>> \o q

\* the temporary a discarded pop result lives in is destroyed at once
Discard(ret) ==
    IF T = "unique_ptr" /\ ret # Void /\ ret # Null THEN <<ret>> ELSE <<>>

Call(op, v, res) ==
    /\ rv' = res.rv
    /\ buffer' = res.buf
    /\ released' = released \o res.rel \o Discard(res.ret)
    /\ last' = [op |-> op, v |-> v, rv |-> rv, buf |-> buffer,
                ret |-> res.ret, rel |-> res.rel \o Discard(res.ret)]
    /\ UNCHANGED <<impl, T, cleared>>
    /\ UNCHANGED others

PushBack ==
    /\ ~cleared
    /\ \E v \in PushValues :
          LET res == IF impl = "ring.h" THEN push_back(T, rv, buffer, v)
                                        ELSE push_back_rs(T, rv, buffer, v)
          IN  /\ Call("push_back", v, res)
              /\ stale' = stale \ {res.slot}
              /\ created' = IF T = "unique_ptr" /\ v # Null THEN v ELSE created
              /\ ref' = ref_push_back(ref, rv.capacity_, v)

PushFront ==
    /\ ~cleared
    /\ \E v \in PushValues :
          LET res == IF impl = "ring.h" THEN push_front(T, rv, buffer, v)
                                        ELSE push_front_rs(T, rv, buffer, v)
          IN  /\ Call("push_front", v, res)
              /\ stale' = stale \ {res.slot}
              /\ created' = IF T = "unique_ptr" /\ v # Null THEN v ELSE created
              /\ ref' = ref_push_front(ref, rv.capacity_, v)

PopFront ==
    /\ ~cleared
    /\ ~empty(rv)
    /\ LET res == IF impl = "ring.h" THEN pop_front(T, rv, buffer)
                                     ELSE pop_front_rs(T, rv, buffer)
       IN  /\ Call("pop_front", Null, res)
           /\ stale' = stale \cup {res.slot}
    /\ ref' = Tail(ref)
    /\ UNCHANGED created

PopBack ==
    /\ ~cleared
    /\ ~empty(rv)
    /\ LET res == IF impl = "ring.h" THEN pop_back(T, rv, buffer)
                                     ELSE pop_back_rs(T, rv, buffer)
       IN  /\ Call("pop_back", Null, res)
           /\ stale' = stale \cup {res.slot}
    /\ ref' = SubSeq(ref, 1, Len(ref) - 1)
    /\ UNCHANGED created

\* the order in which the caller empties its array once the ring is done:
\* slots 1, 2, 0 by hand, the rest by the array's destructor, last slot first
RECURSIVE DownFrom(_)
DownFrom(i) == IF i < 3 THEN <<>> ELSE <<i>> \o DownFrom(i - 1)

ClearOrder(cap) ==
    SelectSeq(<<1, 2, 0>>, LAMBDA i : i < cap) \o DownFrom(cap - 1)

RECURSIVE ReleaseAll(_, _)
ReleaseAll(buf, order) ==
    IF order = <<>> THEN <<>>
    ELSE (IF buf[Head(order)] # Null THEN <<buf[Head(order)]>> ELSE <<>>)
         \o ReleaseAll(buf, Tail(order))

Clear ==
    /\ ~cleared
    /\ T = "unique_ptr"
    /\ cleared' = TRUE
    /\ buffer' = [i \in Slots(rv.capacity_) |-> Null]
    /\ released' = released \o ReleaseAll(buffer, ClearOrder(rv.capacity_))
    /\ last' = [op |-> "clear", v |-> Null, rv |-> rv, buf |-> buffer,
                ret |-> Void,
                rel |-> ReleaseAll(buffer, ClearOrder(rv.capacity_))]
    /\ UNCHANGED <<impl, T, rv, created, ref, stale>>
    /\ UNCHANGED others

Next == PushBack \/ PushFront \/ PopFront \/ PopBack \/ Clear

Spec == Init /\ [][Next]_vars

TypeOK ==
    /\ impl \in Impls
    /\ T \in ElemTypes
    /\ rv.capacity_ \in 1 .. MaxCapacity
    /\ DOMAIN buffer = Slots(rv.capacity_)
    /\ cleared \in BOOLEAN

\* ----------------------------------------------------------- properties
push_ops == {"push_back", "push_front"}

pop_ops == {"pop_front", "pop_back"}

\* the slots of the logical window
WindowSlots(r) == {at(r, i) : i \in 0 .. size(r) - 1}

\* a sequence without its last element
AllButLast(q) == SubSeq(q, 1, Len(q) - 1)

\* how often x occurs in sequence q / in storage buf
Occurrences(q, x) == Cardinality({i \in DOMAIN q : q[i] = x})

\* the elements before and after the call just made, oldest first
Before == rv_to_string(last.rv, last.buf)

After == rv_to_string(rv, buffer)

\* the slot the call just made vacated (pop) or assigned (push), worked out
\* from the window before and after it
Vacated == IF last.op = "pop_front" THEN front(last.rv) ELSE back(last.rv)

Written == IF last.op = "push_back" THEN back(rv) ELSE front(rv)

\* C1: after construction with capacity >= 1 and any sequence of pushes and
\* non-empty pops, 0 <= size() <= capacity(), empty() holds exactly when
\* size() is 0 and full() exactly when size() equals capacity().
C1_SizeWithinCapacity ==
    /\ capacity(rv) >= 1
    /\ 0 <= size(rv) /\ size(rv) <= capacity(rv)
    /\ empty(rv) <=> (size(rv) = 0)
    /\ full(rv) <=> (size(rv) = capacity(rv))
    /\ Len(After) = size(rv)

C1_Witness ==
    /\ last.op = "push_front" /\ full(last.rv) /\ full(rv)
    /\ capacity(rv) >= 2

\* C2: push_back(v) on a full ring evicts exactly the previous front():
\* afterwards back() is v, front() is the former second-oldest element, the
\* other elements keep their order, size() and capacity() are unchanged.
C2_PushBackOnFullEvictsFront ==
    (last.op = "push_back" /\ full(last.rv)) =>
        /\ buffer[back(rv)] = last.v
        /\ After = Tail(Before) \o <<last.v>>
        /\ (Len(Before) >= 2 => buffer[front(rv)] = Before[2])
        /\ size(rv) = size(last.rv)
        /\ capacity(rv) = capacity(last.rv)

C2_Witness ==
    /\ last.op = "push_back" /\ full(last.rv)
    /\ capacity(last.rv) >= 2
    /\ last.rv.front_idx_ = capacity(last.rv) - 1

\* C3: push_front(v) on a full ring drops exactly the newest element:
\* afterwards front() is v, back() is the former second-newest element, the
\* other elements keep their order, size() and capacity() are unchanged.
C3_PushFrontOnFullDropsBack ==
    (last.op = "push_front" /\ full(last.rv)) =>
        /\ buffer[front(rv)] = last.v
        /\ After = <<last.v>> \o AllButLast(Before)
        /\ (Len(Before) >= 2 => buffer[back(rv)] = Before[Len(Before) - 1])
        /\ size(rv) = size(last.rv)
        /\ capacity(rv) = capacity(last.rv)

C3_Witness ==
    /\ last.op = "push_front" /\ full(last.rv)
    /\ capacity(last.rv) >= 2
    /\ last.rv.front_idx_ = 0

\* C4: after any sequence of push_back, push_front, pop_front and pop_back,
\* iterating begin()..end() yields exactly size() elements equal, oldest to
\* newest, to the bounded deque in which push_back on full drops the head
\* and push_front on full drops the tail.
C4_TraversalMatchesDeque ==
    ~cleared =>
        /\ After = ref
        /\ Len(After) = size(rv)

\* push_back 1, 2; pop_back; pop_front; push_back 3; push_front 4;
\* push_back 5, 6 over three slots
C4_Witness ==
    /\ ~cleared
    /\ T = "unique_ptr" /\ rv.popper_.kind = "null"
    /\ capacity(rv) = 3 /\ rv.front_idx_ = 1
    /\ created = 6
    /\ released = <<2, 1, 4>>
    /\ buffer = [i \in Slots(3) |-> IF i = 0 THEN 6 ELSE IF i = 1 THEN 3 ELSE 5]
    /\ ref = <<3, 5, 6>>

\* C5: push_back(v) or push_front(v) on a ring that is not full increases
\* size() by one and assigns only the one slot that newly joins the window;
\* every other slot keeps its value and the elements already in the window
\* keep their order.
C5_PushNotFullWritesOneSlot ==
    (last.op \in push_ops /\ ~full(last.rv)) =>
        /\ size(rv) = size(last.rv) + 1
        /\ \E k \in Slots(capacity(rv)) :
              /\ WindowSlots(rv) \ WindowSlots(last.rv) = {k}
              /\ buffer[k] = last.v
              /\ \A j \in Slots(capacity(rv)) \ {k} : buffer[j] = last.buf[j]
        /\ WindowSlots(last.rv) \subseteq WindowSlots(rv)
        /\ After = IF last.op = "push_back" THEN Before \o <<last.v>>
                                            ELSE <<last.v>> \o Before

C5_Witness ==
    /\ last.op = "push_front" /\ ~full(last.rv)
    /\ size(last.rv) >= 1
    /\ last.rv.front_idx_ = 0

\* C6: on an empty ring (any front index, capacity >= 1) push_back(v) gives
\* size() 1 with front() and back() both v.
C6_PushBackOnEmpty ==
    (last.op = "push_back" /\ empty(last.rv)) =>
        /\ size(rv) = 1
        /\ buffer[front(rv)] = last.v
        /\ buffer[back(rv)] = last.v

C6_Witness ==
    /\ last.op = "push_back" /\ empty(last.rv)
    /\ last.rv.front_idx_ > 0

\* C7: with the move-out popper, pop_front() on a non-empty ring returns the
\* value front() designated before the call and pop_back() the value back()
\* designated; each lowers size() by one, removes only that end element and
\* leaves the remaining elements in the same order.
C7_MovePopReturnsEnd ==
    (rv.popper_.kind = "move" /\ last.op \in pop_ops) =>
        /\ size(rv) = size(last.rv) - 1
        /\ capacity(rv) = capacity(last.rv)
        /\ last.op = "pop_front" =>
              /\ last.ret = last.buf[front(last.rv)]
              /\ After = Tail(Before)
        /\ last.op = "pop_back" =>
              /\ last.ret = last.buf[back(last.rv)]
              /\ After = AllButLast(Before)

C7_Witness ==
    /\ rv.popper_.kind = "move" /\ last.op = "pop_front"
    /\ size(last.rv) >= 2
    /\ last.rv.front_idx_ = capacity(rv) - 1
    /\ last.ret # Null

\* C8: with unique-ownership handles and the move-out popper a pop moves the
\* resource out of the vacated slot, which holds none afterwards; a popped
\* resource is released at the pop, an evicted or overwritten one at the
\* overwriting push, and over any run ending with the buffer cleared every
\* resource is released exactly once.
C8_MoveOutReleasesOnce ==
    (T = "unique_ptr" /\ rv.popper_.kind = "move") =>
        /\ last.op \in pop_ops =>
              /\ buffer[Vacated] = Null
              /\ last.ret = last.buf[Vacated]
              /\ last.rel = IF last.ret # Null THEN <<last.ret>> ELSE <<>>
        /\ last.op \in push_ops =>
              last.rel = IF last.buf[Written] # Null
                         THEN <<last.buf[Written]>> ELSE <<>>
        /\ \A id \in 1 .. created :
              Occurrences(released, id)
                  + Cardinality({i \in DOMAIN buffer : buffer[i] = id}) = 1
        /\ cleared => \A id \in 1 .. created : Occurrences(released, id) = 1

C8_Witness ==
    /\ T = "unique_ptr" /\ rv.popper_.kind = "move"
    /\ cleared
    /\ created >= 5
    /\ Len(released) = created
    /\ released[1] = 2 /\ released[2] = 1

\* C9: with the discarding popper a pop changes only the bookkeeping: the
\* vacated slot keeps its value, whose resource is released only when a
\* later push assigns over that slot or the buffer is cleared, and a vacated
\* slot is never inside begin()..end() before it is assigned again.
C9_DiscardKeepsStaleSlot ==
    rv.popper_.kind = "null" =>
        /\ last.op \in pop_ops =>
              /\ buffer = last.buf
              /\ last.ret = Void
              /\ last.rel = <<>>
        /\ last.rel # <<>> =>
              \/ last.op = "clear"
              \/ /\ last.op \in push_ops
                 /\ last.rel = <<last.buf[Written]>>
                 /\ buffer[Written] = last.v
        /\ ~cleared => stale \cap WindowSlots(rv) = {}

C9_Witness ==
    /\ T = "unique_ptr" /\ rv.popper_.kind = "null"
    /\ last.op = "push_front"
    /\ released = <<2, 1>>
    /\ last.rel = <<1>>

\* C10: with copy_popper constructed with sentinel s, each pop returns the
\* value the vacated slot held before the call and leaves s in that slot.
C10_CopyPopLeavesSentinel ==
    (rv.popper_.kind = "copy" /\ last.op \in pop_ops) =>
        /\ last.ret = last.buf[Vacated]
        /\ buffer[Vacated] = rv.popper_.t_
        /\ \A j \in Slots(capacity(rv)) \ {Vacated} : buffer[j] = last.buf[j]

C10_Witness ==
    /\ rv.popper_.kind = "copy" /\ last.op = "pop_back"
    /\ rv.popper_.t_ # Null
    /\ last.ret # rv.popper_.t_
    /\ size(rv) >= 1

\* C19: a cursor at logical position i, 0 <= i < size(), dereferences to
\* backing slot (front_idx_ + i) mod capacity_; begin() is position 0 and
\* end() is position size(), so front() is slot front_idx_ and back() is slot
\* (front_idx_ + size_ - 1) mod capacity_. The slot reached at position i
\* holds the i-th oldest element.
C19_CursorToSlot ==
    /\ begin(rv) = 0
    /\ end(rv) = size(rv)
    /\ \A i \in 0 .. size(rv) - 1 :
          /\ iter_deref(rv, i) \in Slots(rv.capacity_)
          /\ iter_deref(rv, i) = (rv.front_idx_ + i) % rv.capacity_
          /\ ~cleared => buffer[iter_deref(rv, i)] = ref[i + 1]
    /\ ~empty(rv) =>
          /\ front(rv) = rv.front_idx_
          /\ back(rv) = (rv.front_idx_ + rv.size_ - 1) % rv.capacity_
          /\ front(rv) = iter_deref(rv, begin(rv))
          /\ back(rv) = iter_deref(rv, iter_sub(end(rv), 1))

\* a window that wraps past the last slot, reached by a push
C19_Witness ==
    /\ last.op = "push_back"
    /\ rv.front_idx_ > 0
    /\ size(rv) >= 2
    /\ back(rv) < front(rv)
    /\ buffer[back(rv)] = last.v

\* C29: in every pop_front and pop_back the popper is invoked exactly once,
\* on the single slot that leaves the window, and the pop neither modifies
\* nor writes any other slot; pushes never invoke the popper (they hand
\* nothing out and change only the slot they assign).
C29_PopperOnVacatedSlotOnly ==
    /\ last.op \in pop_ops =>
          LET once == popper_(T, last.rv.popper_, last.buf[Vacated])
          IN  /\ WindowSlots(last.rv) \ WindowSlots(rv) = {Vacated}
              /\ buffer[Vacated] = once.slot
              /\ last.ret = once.ret
              /\ \A j \in Slots(capacity(rv)) \ {Vacated} :
                    buffer[j] = last.buf[j]
              /\ last.rel = Discard(last.ret)
    /\ last.op \in push_ops =>
          /\ last.ret = Void
          /\ buffer[Written] = last.v
          /\ \A j \in Slots(capacity(rv)) \ {Written} : buffer[j] = last.buf[j]

C29_Witness ==
    /\ last.op = "pop_front"
    /\ T = "unique_ptr" /\ rv.popper_.kind = "move"
    /\ last.ret # Null
    /\ buffer[Vacated] = Null
    /\ size(rv) >= 1 /\ last.rv.front_idx_ = capacity(rv) - 1

\* ------------------------------------------------- calls of try_ functions
TryPushBack ==
    /\ ~cleared
    /\ impl = "ring_span.h"
    /\ \E v \in PushValues :
          LET res == try_push_back(T, rv, buffer, v)
          IN  /\ rv' = res.rv
              /\ buffer' = res.buf
              /\ released' = released \o res.rel
              /\ last' = [op |-> "try_push_back", v |-> v, rv |-> rv,
                          buf |-> buffer, ret |-> res.ret, rel |-> res.rel]
              /\ stale' = stale \ {res.slot}
              /\ created' = IF res.ret /\ T = "unique_ptr" THEN v ELSE created
              /\ ref' = IF res.ret THEN ref_push_back(ref, rv.capacity_, v)
                                   ELSE ref
    /\ UNCHANGED <<impl, T, cleared>>
    /\ UNCHANGED others

TryPopFront ==
    /\ ~cleared
    /\ impl = "ring_span.h"
    /\ LET res == try_pop_front(T, rv, buffer)
       IN  /\ rv' = res.rv
           /\ buffer' = res.buf
           /\ released' = released \o Discard(res.popped)
           /\ last' = [op |-> "try_pop_front", v |-> Null, rv |-> rv,
                       buf |-> buffer, ret |-> res.ret,
                       rel |-> Discard(res.popped)]
           /\ stale' = IF res.ret THEN stale \cup {res.slot} ELSE stale
           /\ ref' = IF res.ret THEN Tail(ref) ELSE ref
    /\ UNCHANGED <<impl, T, cleared, created>>
    /\ UNCHANGED others

NextTry == Next \/ TryPushBack \/ TryPopFront

SpecTry == Init /\ [][NextTry]_vars

\* C11: try_push_back(r, v) on a full ring returns false and changes neither
\* the bookkeeping nor any slot (it never evicts); on a ring that is not full
\* it returns true and has exactly the effect of push_back(v).
C11_TryPushBack ==
    last.op = "try_push_back" =>
        IF full(last.rv)
        THEN /\ last.ret = FALSE
             /\ rv = last.rv
             /\ buffer = last.buf
             /\ last.rel = <<>>
        ELSE /\ last.ret = TRUE
             /\ rv = push_back_rs(T, last.rv, last.buf, last.v).rv
             /\ buffer = push_back_rs(T, last.rv, last.buf, last.v).buf
             /\ size(rv) = size(last.rv) + 1
             /\ After = Before \o <<last.v>>

C11_Witness ==
    /\ last.op = "try_push_back" /\ full(last.rv)
    /\ capacity(rv) >= 2
    /\ last.ret = FALSE

\* C12: try_pop_front(r) on an empty ring returns false and changes neither
\* the bookkeeping nor the storage; on a non-empty ring it returns true and
\* has exactly the effect of pop_front(): the popper runs once, on the old
\* front slot.
C12_TryPopFront ==
    last.op = "try_pop_front" =>
        IF empty(last.rv)
        THEN /\ last.ret = FALSE
             /\ rv = last.rv
             /\ buffer = last.buf
             /\ last.rel = <<>>
        ELSE /\ last.ret = TRUE
             /\ rv = pop_front_rs(T, last.rv, last.buf).rv
             /\ buffer = pop_front_rs(T, last.rv, last.buf).buf
             /\ buffer[front(last.rv)] =
                    popper_(T, rv.popper_, last.buf[front(last.rv)]).slot
             /\ \A j \in Slots(capacity(rv)) \ {front(last.rv)} :
                    buffer[j] = last.buf[j]
             /\ size(rv) = size(last.rv) - 1
             /\ After = Tail(Before)

C12_Witness ==
    /\ last.op = "try_pop_front" /\ empty(last.rv)
    /\ last.rv.front_idx_ > 0
    /\ last.ret = FALSE

\* ------------------------------------------------ two rings, two arrays
RingNames == {"Q", "Q6"}

ArrayNames == {"buffer", "buffer2"}

\* two int arrays and an empty ring over each, starting at its first slot
InitViews ==
    /\ impl \in Impls
    /\ T = "int"
    /\ \E c1 \in 1 .. MaxCapacity, c2 \in 1 .. MaxCapacity,
          p1 \in Poppers("ring.h", T), p2 \in Poppers("ring.h", T) :
          /\ arrays = [a \in ArrayNames |->
                          IF a = "buffer" THEN [i \in Slots(c1) |-> Null]
                                          ELSE [i \in Slots(c2) |-> Null]]
          /\ rings = [n \in RingNames |->
                         IF n = "Q"
                         THEN ring_span_over("buffer",
                                             ring_span_partial(c1, 0, 0, p1))
                         ELSE ring_span_over("buffer2",
                                             ring_span_partial(c2, 0, 0, p2))]
    /\ nops = 0
    /\ last = [op |-> "none", ring |-> "Q", v |-> Null, rings |-> rings,
               arrays |-> arrays, ret |-> Void]
    /\ rv = ring_span_full(1, [kind |-> "null", t_ |-> Null])
    /\ buffer = [i \in Slots(1) |-> Null]
    /\ created = 0 /\ released = <<>> /\ cleared = FALSE
    /\ ref = <<>> /\ stale = {}
    /\ fault = "none" /\ it = 0
    /\ NoThreads

\* a call on ring n: its result res.rv, res.buf goes back into ring n and
\* into the array ring n points at
ViewCall(op, n, v, res) ==
    /\ nops < MaxViewOps
    /\ nops' = nops + 1
    /\ rings' = [rings EXCEPT ![n] = res.rv]
    /\ arrays' = [arrays EXCEPT ![rings[n].data_] = res.buf]
    /\ last' = [op |-> op, ring |-> n, v |-> v, rings |-> rings,
                arrays |-> arrays, ret |-> res.ret]
    /\ UNCHANGED <<impl, T, rv, buffer, created, released, cleared, ref,
                   stale, fault, it, threads>>

ViewPushBack ==
    \E n \in RingNames, v \in 1 .. MaxVal :
        ViewCall("push_back", n, v,
                 IF impl = "ring.h"
                 THEN push_back(T, rings[n], arrays[rings[n].data_], v)
                 ELSE push_back_rs(T, rings[n], arrays[rings[n].data_], v))

ViewPopFront ==
    \E n \in RingNames :
        /\ ~empty(rings[n])
        /\ ViewCall("pop_front", n, Null,
                    IF impl = "ring.h"
                    THEN pop_front(T, rings[n], arrays[rings[n].data_])
                    ELSE pop_front_rs(T, rings[n], arrays[rings[n].data_]))

\* Q6.swap(Q)
ViewSwap ==
    /\ nops < MaxViewOps
    /\ nops' = nops + 1
    /\ rings' = [n \in RingNames |->
                    IF n = "Q6" THEN swap(rings["Q6"], rings["Q"]).lhs
                                ELSE swap(rings["Q6"], rings["Q"]).rhs]
    /\ last' = [op |-> "swap", ring |-> "Q6", v |-> Null, rings |-> rings,
                arrays |-> arrays, ret |-> Void]
    /\ UNCHANGED <<impl, T, rv, buffer, created, released, cleared, ref,
                   stale, fault, it, arrays, threads>>

\* n = m: ring n becomes a copy of ring m
ViewCopy ==
    \E n \in RingNames : \E m \in RingNames \ {n} :
        /\ nops < MaxViewOps
        /\ nops' = nops + 1
        /\ rings' = [rings EXCEPT ![n] = ring_span_copy(rings[m])]
        /\ last' = [op |-> "copy", ring |-> n, v |-> Null, rings |-> rings,
                    arrays |-> arrays, ret |-> Void]
        /\ UNCHANGED <<impl, T, rv, buffer, created, released, cleared, ref,
                       stale, fault, it, arrays, threads>>

NextViews == ViewPushBack \/ ViewPopFront \/ ViewSwap \/ ViewCopy

SpecViews == InitViews /\ [][NextViews]_vars

\* the ring other than n
OtherRing(n) == CHOOSE m \in RingNames : m # n

\* what ring r shows of the arrays arrs, oldest first
Contents(r, arrs) == rv_to_string(r, arrs[r.data_])

\* C13: a.swap(b) exchanges the storage pointer, size, capacity, front index
\* and popper and writes no element slot: afterwards a shows exactly b's
\* former size, front(), back() and contents and b shows a's, and swapping
\* twice restores both.
C13_SwapExchangesViews ==
    last.op = "swap" =>
        /\ arrays = last.arrays
        /\ \A n \in RingNames :
              LET now == rings[n]
                  was == last.rings[OtherRing(n)]
              IN  /\ now.data_ = was.data_
                  /\ now.size_ = was.size_
                  /\ now.capacity_ = was.capacity_
                  /\ now.front_idx_ = was.front_idx_
                  /\ now.popper_ = was.popper_
                  /\ Contents(now, arrays) = Contents(was, last.arrays)
                  /\ ~empty(was) =>
                        /\ front(now) = front(was)
                        /\ back(now) = back(was)
        /\ swap(rings["Q6"], rings["Q"]).lhs = last.rings["Q6"]
        /\ swap(rings["Q6"], rings["Q"]).rhs = last.rings["Q"]

C13_Witness ==
    /\ last.op = "swap"
    /\ last.rings["Q"].data_ # last.rings["Q6"].data_
    /\ last.rings["Q"].size_ # last.rings["Q6"].size_
    /\ last.rings["Q"].capacity_ # last.rings["Q6"].capacity_
    /\ last.rings["Q"].front_idx_ # last.rings["Q6"].front_idx_
    /\ last.rings["Q"].popper_ # last.rings["Q6"].popper_

\* C14: copying a ring_span yields a second view with equal size(), front()
\* and back() over the same storage; a push or pop through one view leaves
\* the other view's bookkeeping unchanged, while element values are shared:
\* a slot assigned through one view reads back with that value through the
\* other.
C14_CopySharesStorage ==
    /\ last.op = "copy" =>
          LET dst == rings[last.ring]
              src == last.rings[OtherRing(last.ring)]
          IN  /\ dst.data_ = src.data_
              /\ size(dst) = size(src)
              /\ ~empty(src) => front(dst) = front(src) /\ back(dst) = back(src)
              /\ Contents(dst, arrays) = Contents(src, last.arrays)
              /\ rings[OtherRing(last.ring)] = src
              /\ arrays = last.arrays
    /\ last.op \in {"push_back", "pop_front"} =>
          LET other == OtherRing(last.ring)
          IN  /\ rings[other] = last.rings[other]
              /\ \A a \in ArrayNames \ {rings[last.ring].data_} :
                    arrays[a] = last.arrays[a]
              /\ (last.op = "push_back"
                     /\ rings[other].data_ = rings[last.ring].data_) =>
                    arrays[rings[other].data_][back(rings[last.ring])] = last.v

\* a push through the copy lands in a slot the original still shows
C14_Witness ==
    /\ last.op = "push_back" /\ last.ring = "Q6"
    /\ rings["Q"].data_ = rings["Q6"].data_
    /\ rings["Q"] # rings["Q6"]
    /\ back(rings["Q6"]) \in WindowSlots(rings["Q"])
    /\ last.arrays[rings["Q"].data_][back(rings["Q6"])] # last.v

\* ---------------------------------------------------- queries and cursors
\* one ring as constructed, queried and walked with one cursor `it`
MaxCursor == MaxCapacity + 2

Offsets == 1 .. 2

CursorOps == {"begin()", "end()", "++", "--", "+", "-"}

Query ==
    \E q \in QueryNames :
        /\ q \in {"front", "back"} => ~empty(rv)
        /\ LET res == query(q, rv, buffer)
           IN  /\ rv' = res.rv
               /\ buffer' = res.buf
               /\ last' = [op |-> q, v |-> Null, rv |-> rv, buf |-> buffer,
                           ret |-> res.ret, rel |-> <<>>]
        /\ UNCHANGED <<impl, T, created, released, cleared, ref, stale>>
        /\ UNCHANGED others

\* a cursor operation: the new position, and what the cursor did before
CursorCall(op, n, pos) ==
    /\ pos \in 0 .. MaxCursor
    /\ it' = pos
    /\ last' = [op |-> op, v |-> n, rv |-> rv, buf |-> buffer,
                ret |-> pos, rel |-> <<>>, it |-> it,
                prev |-> last.op,
                pv |-> last.v,
                it0 |-> IF last.op \in CursorOps THEN last.it ELSE it]
    /\ UNCHANGED <<impl, T, rv, buffer, created, released, cleared, ref, stale>>
    /\ UNCHANGED <<fault, rings, arrays, nops, threads>>

CursorBegin == CursorCall("begin()", Null, begin(rv))

CursorEnd == CursorCall("end()", Null, end(rv))

CursorInc == CursorCall("++", Null, iter_inc(it))

CursorDec == CursorCall("--", Null, iter_dec(it))

CursorAdd == \E n \in Offsets : CursorCall("+", n, iter_add(it, n))

CursorSub == \E n \in Offsets : CursorCall("-", n, iter_sub(it, n))

NextCursor ==
    \/ Query
    \/ CursorBegin \/ CursorEnd
    \/ CursorInc \/ CursorDec
    \/ CursorAdd \/ CursorSub

SpecCursor == Init /\ [][NextCursor]_vars

\* C15: size(), capacity(), empty(), full(), front(), back(), begin() and
\* end() leave the ring's bookkeeping and the backing storage as they were,
\* and the same query made again, nothing having changed the ring in
\* between, returns the same result.
C15_QueriesLeaveState ==
    last.op \in QueryNames =>
        /\ rv = last.rv
        /\ buffer = last.buf
        /\ query(last.op, rv, buffer).ret = last.ret
        /\ After = Before

C15_Witness ==
    /\ last.op = "front"
    /\ size(rv) >= 2 /\ rv.front_idx_ > 0
    /\ last.ret = rv.front_idx_

\* C20: cursor arithmetic acts on the logical position only: ++ raises the
\* position by one, -- lowers it by one, + n and - n shift it by n; so
\* --(++it) is it again, (it + n) - n is it again, and --end() on a
\* non-empty ring dereferences to back().
C20_CursorArithmetic ==
    /\ last.op = "++" => it = last.it + 1
    /\ last.op = "--" => it = last.it - 1
    /\ last.op = "+" => it = last.it + last.v
    /\ last.op = "-" => it = last.it - last.v
    /\ (last.op = "--" /\ last.prev = "++") => it = last.it0
    /\ (last.op = "-" /\ last.prev = "+" /\ last.v = last.pv) => it = last.it0
    /\ (last.op = "--" /\ last.prev = "end()" /\ ~empty(rv)) =>
           iter_deref(rv, it) = back(rv)

\* ------------------------------------------- unchecked constructor inputs
\* the ring as the constructors build it from whatever the caller passes: an
\* array of any length, zero included, a start anywhere in [begin, end] and
\* any count; assert() is active (no NDEBUG). A call that cannot complete
\* leaves its reason in `fault` and the run ends there:
\*   "assert"   the precondition assertion failed
\*   "modzero"  an index was computed modulo capacity_ = 0
\*   "oob"      data_ was indexed outside the array
Faults == {"none", "assert", "modzero", "oob"}

\* pops whose assertion is compiled out
assert_nothing(r) == TRUE

\* assert(not empty())
assert_not_empty(r) == ~empty(r)

\* the slot a call indexes data_ with: pop_front uses front_idx_ as it is,
\* every other call reduces its index modulo capacity_
touched(op, r) ==
    CASE op = "pop_front" -> r.front_idx_
      [] op = "pop_back" -> (r.front_idx_ + r.size_ - 1) % r.capacity_
      [] op = "push_back" -> (r.front_idx_ + r.size_) % r.capacity_
      [] op = "push_front" -> (r.front_idx_ + r.capacity_ - 1) % r.capacity_

\* how far a call gets: the assertion is the first statement of the pops,
\* the pushes have none; then the index arithmetic, then the access
fault_of(op, r) ==
    IF op \in pop_ops /\ ~assert_not_empty(r) THEN "assert"
    ELSE IF r.capacity_ = 0 THEN "modzero"
    ELSE IF touched(op, r) \notin Slots(r.capacity_) THEN "oob"
    ELSE "none"

InitRaw ==
    /\ impl \in Impls
    /\ T \in ElemTypes
    /\ \E cap \in 0 .. MaxCapacity, p \in Poppers(impl, T) :
          \/ /\ rv = ring_span_full(cap, p)
             /\ buffer = InitBuffer(cap, 0, cap)
             /\ last = [op |-> "ring_span", v |-> Null, rv |-> rv,
                        buf |-> buffer, ret |-> Void, rel |-> <<>>,
                        first |-> 0, count |-> cap]
          \/ \E first \in 0 .. cap, sz \in 0 .. cap + 1 :
                /\ rv = ring_span_partial(cap, first, sz, p)
                /\ buffer = InitBuffer(cap, first, sz)
                /\ last = [op |-> "ring_span", v |-> Null, rv |-> rv,
                           buf |-> buffer, ret |-> Void, rel |-> <<>>,
                           first |-> first, count |-> sz]
    /\ created = IF T = "unique_ptr"
                 THEN Cardinality({i \in DOMAIN buffer : buffer[i] # Null})
                 ELSE 0
    /\ released = <<>>
    /\ cleared = FALSE
    /\ ref = <<>>
    /\ stale = {}
    /\ Parked

RawCall(op, v, res) ==
    /\ fault = "none"
    /\ nops < MaxViewOps
    /\ nops' = nops + 1
    /\ fault' = fault_of(op, rv)
    /\ IF fault_of(op, rv) = "none"
       THEN /\ rv' = res.rv
            /\ buffer' = res.buf
            /\ released' = released \o res.rel \o Discard(res.ret)
            /\ last' = [op |-> op, v |-> v, rv |-> rv, buf |-> buffer,
                        ret |-> res.ret, rel |-> res.rel \o Discard(res.ret)]
       ELSE /\ last' = [op |-> op, v |-> v, rv |-> rv, buf |-> buffer,
                        ret |-> Void, rel |-> <<>>]
            /\ UNCHANGED <<rv, buffer, released>>
    /\ UNCHANGED <<impl, T, cleared, ref, stale, it, rings, arrays,
                   threads>>

RawPushBack ==
    \E v \in PushValues :
        /\ RawCall("push_back", v,
                   IF impl = "ring.h" THEN push_back(T, rv, buffer, v)
                                      ELSE push_back_rs(T, rv, buffer, v))
        /\ created' = IF T = "unique_ptr" THEN v ELSE created

RawPushFront ==
    \E v \in PushValues :
        /\ RawCall("push_front", v,
                   IF impl = "ring.h" THEN push_front(T, rv, buffer, v)
                                      ELSE push_front_rs(T, rv, buffer, v))
        /\ created' = IF T = "unique_ptr" THEN v ELSE created

RawPopFront ==
    /\ RawCall("pop_front", Null,
               IF impl = "ring.h" THEN pop_front(T, rv, buffer)
                                  ELSE pop_front_rs(T, rv, buffer))
    /\ UNCHANGED created

RawPopBack ==
    /\ RawCall("pop_back", Null,
               IF impl = "ring.h" THEN pop_back(T, rv, buffer)
                                  ELSE pop_back_rs(T, rv, buffer))
    /\ UNCHANGED created

NextRaw == RawPushBack \/ RawPushFront \/ RawPopFront \/ RawPopBack

SpecRaw == InitRaw /\ [][NextRaw]_vars

\* C16: pop_front() and pop_back() on an empty ring are stopped by the
\* precondition assertion before any bookkeeping field or slot is modified:
\* the outcome is an assertion failure, the size does not underflow.
C16_PopOnEmptyAsserts ==
    (last.op \in pop_ops /\ empty(last.rv)) =>
        /\ fault = "assert"
        /\ rv = last.rv
        /\ buffer = last.buf
        /\ size(rv) = 0
        /\ last.ret = Void /\ last.rel = <<>>

C16_Witness ==
    /\ last.op = "pop_back" /\ empty(last.rv)
    /\ fault = "assert"
    /\ capacity(rv) >= 2 /\ nops >= 3

\* C17: on a ring constructed over an empty range (capacity() = 0) every
\* push and pop is stopped by a precondition check; no call computes an
\* index modulo zero.
C17_ZeroCapacityGuarded ==
    (/\ last.op \in push_ops \cup pop_ops
     /\ capacity(last.rv) = 0 /\ size(last.rv) = 0
     /\ last.rv.front_idx_ = 0) =>
        /\ fault = "assert"
        /\ fault # "modzero"

\* C18: the partial constructor rejects a start offset that is not a slot
\* index below capacity and a count greater than capacity instead of storing
\* them into front_idx_ and size_.
C18_PartialCtorValidates ==
    (/\ last.op = "ring_span"
     /\ capacity(rv) >= 1
     /\ (last.first \notin Slots(capacity(rv)) \/ last.count > capacity(rv))) =>
        /\ fault = "assert"
        /\ rv.front_idx_ # last.first \/ last.first \in Slots(capacity(rv))
        /\ rv.size_ # last.count \/ last.count <= capacity(rv)

\* ------------------------------------------- cursors into two ring_spans
\* two rings as constructed over two arrays, and comparisons of a cursor
\* into one with a cursor into the other (or into the same one)
InitCompare ==
    /\ impl \in Impls
    /\ T = "int"
    /\ \E c1 \in 1 .. MaxCapacity, c2 \in 1 .. MaxCapacity,
          p \in Poppers("ring.h", T) :
          \E s1 \in 0 .. c1, s2 \in 0 .. c2 :
             /\ arrays = [a \in ArrayNames |->
                             IF a = "buffer" THEN InitBuffer(c1, 0, s1)
                                             ELSE InitBuffer(c2, 0, s2)]
             /\ rings = [n \in RingNames |->
                            IF n = "Q"
                            THEN ring_span_over("buffer",
                                                ring_span_partial(c1, 0, s1, p))
                            ELSE ring_span_over("buffer2",
                                                ring_span_partial(c2, 0, s2, p))]
    /\ nops = 0
    /\ last = [op |-> "none", ring |-> "Q", v |-> Null, rings |-> rings,
               arrays |-> arrays, ret |-> Void]
    /\ rv = ring_span_full(1, [kind |-> "null", t_ |-> Null])
    /\ buffer = [i \in Slots(1) |-> Null]
    /\ created = 0 /\ released = <<>> /\ cleared = FALSE
    /\ ref = <<>> /\ stale = {}
    /\ fault = "none" /\ it = 0
    /\ NoThreads

\* the cursors a ring hands out
Cursors(n) ==
    {[idx_ |-> begin(rings[n]), rv_ |-> n], [idx_ |-> end(rings[n]), rv_ |-> n]}

\* a cmp b for a cursor a of ring n and a cursor b of ring m
ViewCompare ==
    \E n \in RingNames, m \in RingNames, cmp \in CmpOps :
        \E a \in Cursors(n), b \in Cursors(m) :
            LET res == iter_compare(cmp, a, b)
            IN  /\ fault = "none"
                /\ fault' = res.fault
                /\ last' = [op |-> cmp, ring |-> n, v |-> Null,
                            rings |-> rings, arrays |-> arrays,
                            ret |-> res.ret, a |-> a, b |-> b]
                /\ UNCHANGED <<impl, T, rv, buffer, created, released,
                               cleared, ref, stale, it, rings, arrays, nops,
                   threads>>

NextCompare == ViewCompare

SpecCompare == InitCompare /\ [][NextCompare]_vars

\* C21: comparing (==, !=, <, <=, >, >=) two cursors obtained from different
\* ring_span instances is diagnosed as a caller-contract violation (an
\* assertion failure) and does not return a result computed from the two
\* logical positions.
C21_CompareAcrossRingsAsserts ==
    (last.op \in CmpOps /\ last.a.rv_ # last.b.rv_) =>
        /\ fault = "assert"
        /\ last.ret \notin BOOLEAN

\* ------------------------------------------------- producer and consumer
\* thread_communication_test: thread "ci" reads values and pushes them under
\* the mutex, thread "po" pops them under the same mutex, waiting on the
\* condition variable while the ring is empty; -1 ends both loops
Quit == -1

Threads == {"ci", "po"}

Inputs == (1 .. MaxVal) \cup {Quit}

InitThreads ==
    /\ impl = "ring_span.h"
    /\ T = "int"
    /\ \E cap \in 1 .. MaxCapacity :
          /\ rv = ring_span_partial(cap, 0, 0, [kind |-> "move", t_ |-> Null])
          /\ buffer = [i \in Slots(cap) |-> Null]
    /\ created = 0 /\ released = <<>> /\ cleared = FALSE
    /\ last = [op |-> "none", v |-> Null, rv |-> rv, buf |-> buffer,
               ret |-> Void, rel |-> <<>>]
    /\ ref = <<>> /\ stale = {}
    /\ fault = "none" /\ it = 0 /\ rings = <<>> /\ arrays = <<>> /\ nops = 0
    /\ pc = [t \in Threads |-> IF t = "ci" THEN "read" ELSE "lock"]
    /\ mutex = "free"
    /\ waiting = {}
    /\ regs = [t \in Threads |-> 0]

\* a step of thread t that touches neither the ring nor the mutex
Goto(t, to) == pc' = [pc EXCEPT ![t] = to]

RingSame == UNCHANGED <<impl, T, rv, buffer, created, released, cleared, last,
                        ref, stale, fault, it, rings, arrays, nops>>

\* std::cin >> val
ProducerRead ==
    /\ pc["ci"] = "read" /\ fault = "none"
    /\ \E v \in Inputs : regs' = [regs EXCEPT !["ci"] = v]
    /\ Goto("ci", "lock")
    /\ RingSame /\ UNCHANGED <<mutex, waiting>>

\* std::lock_guard<std::mutex> lg(m), std::unique_lock<std::mutex> lk(m)
Lock(t, to) ==
    /\ pc[t] = "lock" /\ fault = "none"
    /\ mutex = "free"
    /\ mutex' = t
    /\ Goto(t, to)
    /\ RingSame /\ UNCHANGED <<waiting, regs>>

ProducerLock == Lock("ci", "push")

\* r.push_back(val)
ProducerPush ==
    /\ pc["ci"] = "push" /\ fault = "none"
    /\ LET res == push_back_rs(T, rv, buffer, regs["ci"])
       IN  /\ rv' = res.rv
           /\ buffer' = res.buf
           /\ last' = [op |-> "push_back", v |-> regs["ci"], rv |-> rv,
                       buf |-> buffer, ret |-> res.ret, rel |-> <<>>]
    /\ ref' = ref_push_back(ref, rv.capacity_, regs["ci"])
    /\ Goto("ci", "notify")
    /\ UNCHANGED <<impl, T, created, released, cleared, stale, fault, it,
                   rings, arrays, nops, mutex, waiting, regs>>

\* a notify_one that wakes nobody
ProducerNotifyNobody ==
    /\ pc["ci"] = "notify" /\ fault = "none"
    /\ Goto("ci", "unlock")
    /\ RingSame /\ UNCHANGED <<mutex, waiting, regs>>

\* cv.notify_one()
ProducerNotify ==
    /\ pc["ci"] = "notify" /\ fault = "none"
    /\ \/ waiting = {} /\ UNCHANGED waiting
       \/ \E w \in waiting : waiting' = waiting \ {w}
    /\ Goto("ci", "unlock")
    /\ RingSame /\ UNCHANGED <<mutex, regs>>

\* the end of the locked block, and of the do-while body
Unlock(t, again) ==
    /\ pc[t] = "unlock" /\ fault = "none"
    /\ mutex' = "free"
    /\ Goto(t, IF regs[t] # Quit THEN again ELSE "done")
    /\ RingSame /\ UNCHANGED <<waiting, regs>>

ProducerUnlock == Unlock("ci", "read")

ConsumerLock == Lock("po", "check")

\* while (r.empty()) cv.wait(lk): the test, and the wait giving up the mutex
ConsumerCheck ==
    /\ pc["po"] = "check" /\ fault = "none"
    /\ IF empty(rv)
       THEN /\ mutex' = "free"
            /\ waiting' = waiting \cup {"po"}
            /\ Goto("po", "wait")
       ELSE /\ Goto("po", "pop")
            /\ UNCHANGED <<mutex, waiting>>
    /\ RingSame /\ UNCHANGED regs

\* a wait may end without any notify
SpuriousWake ==
    /\ pc["po"] = "wait" /\ fault = "none"
    /\ "po" \in waiting
    /\ waiting' = waiting \ {"po"}
    /\ RingSame /\ UNCHANGED <<pc, mutex, regs>>

\* a wait that returns without looking at the ring again
ConsumerWokenOnce ==
    /\ pc["po"] = "wait" /\ fault = "none"
    /\ "po" \notin waiting
    /\ mutex = "free"
    /\ mutex' = "po"
    /\ Goto("po", "pop")
    /\ RingSame /\ UNCHANGED <<waiting, regs>>

\* cv.wait returns holding the mutex again, and the loop tests r.empty()
ConsumerWoken ==
    /\ pc["po"] = "wait" /\ fault = "none"
    /\ "po" \notin waiting
    /\ mutex = "free"
    /\ mutex' = "po"
    /\ Goto("po", "check")
    /\ RingSame /\ UNCHANGED <<waiting, regs>>

\* val = r.pop_front()
ConsumerPop ==
    /\ pc["po"] = "pop" /\ fault = "none"
    /\ fault' = fault_of("pop_front", rv)
    /\ IF fault_of("pop_front", rv) = "none"
       THEN LET res == pop_front_rs(T, rv, buffer)
            IN  /\ rv' = res.rv
                /\ buffer' = res.buf
                /\ regs' = [regs EXCEPT !["po"] = res.ret]
                /\ last' = [op |-> "pop_front", v |-> Null, rv |-> rv,
                            buf |-> buffer, ret |-> res.ret, rel |-> <<>>]
                /\ ref' = Tail(ref)
       ELSE /\ last' = [op |-> "pop_front", v |-> Null, rv |-> rv,
                        buf |-> buffer, ret |-> Void, rel |-> <<>>]
            /\ UNCHANGED <<rv, buffer, regs, ref>>
    /\ Goto("po", "unlock")
    /\ UNCHANGED <<impl, T, created, released, cleared, stale, it, rings,
                   arrays, nops, mutex, waiting>>

ConsumerUnlock == Unlock("po", "lock")

NextThreads ==
    \/ ProducerRead \/ ProducerLock \/ ProducerPush \/ ProducerNotify
    \/ ProducerUnlock
    \/ ConsumerLock \/ ConsumerCheck \/ SpuriousWake \/ ConsumerWoken
    \/ ConsumerPop \/ ConsumerUnlock

SpecThreads == InitThreads /\ [][NextThreads]_vars

\* C22: in the producer/consumer pattern of thread_communication_test, in
\* every interleaving pop_front is only ever executed on a non-empty ring,
\* ring operations happen under the mutex, and the ring invariants hold in
\* every reachable state.
C22_PopOnlyWhenNotEmpty ==
    /\ fault = "none"
    /\ pc["po"] = "pop" => (~empty(rv) /\ mutex = "po")
    /\ last.op = "pop_front" => ~empty(last.rv)
    /\ pc["ci"] \in {"push", "notify", "unlock"} => mutex = "ci"
    /\ 0 <= size(rv) /\ size(rv) <= capacity(rv)
    /\ rv.front_idx_ \in Slots(capacity(rv))
    /\ After = ref

\* the consumer waited on the empty ring, then took the last value pushed
C22_Witness ==
    /\ pc["ci"] = "done" /\ pc["po"] = "done"
    /\ last.op = "pop_front" /\ last.ret = Quit
    /\ empty(rv) /\ rv.front_idx_ > 0
    /\ capacity(rv) >= 2

\* ------------------------- ring_view with a size counter, and fixed_ring
\* assignment_ring_view.h, second class: size_, capacity_, front_idx_ and
\* popper_ as in ring_span; fixed_ring<T, N> owns an array ctr_ and a
\* ring_view rv_ over it and hands push and pop on to it
ring_view_partial(cap, first, sz, p) ==
    [size_ |-> sz, capacity_ |-> cap, front_idx_ |-> first, popper_ |-> p]

\* the poppers of assignment_ring_view.h: default_popper does nothing
RingViewPoppers ==
    {[kind |-> "null", t_ |-> Null], [kind |-> "move", t_ |-> Null]}

pop_front_av(t, r, buf) ==
    LET old_front_idx == r.front_idx_
        r1 == [r EXCEPT !.front_idx_ = (r.front_idx_ + 1) % r.capacity_,
                        !.size_ = r.size_ - 1]
        p  == popper_(t, r1.popper_, buf[old_front_idx])
    IN  [rv |-> r1, buf |-> [buf EXCEPT ![old_front_idx] = p.slot],
         slot |-> old_front_idx, ret |-> p.ret, rel |-> <<>>]

push_back_av(t, r, buf, value) ==
    LET a  == Assign(t, buf, back_idx(r), value)
        r1 == IF ~full(r) THEN [r EXCEPT !.size_ = r.size_ + 1] ELSE r
    IN  [rv |-> r1, buf |-> a.buf, slot |-> back_idx(r), ret |-> Void,
         rel |-> a.rel]

\* fixed_ring<int, N> fr;
InitFixed ==
    /\ impl = "assignment_ring_view.h"
    /\ T = "int"
    /\ \E N \in 1 .. MaxCapacity, p \in RingViewPoppers :
          /\ rv = ring_view_partial(N, 0, 0, p)
          /\ buffer = [i \in Slots(N) |-> Null]
    /\ created = 0 /\ released = <<>> /\ cleared = FALSE
    /\ last = [op |-> "none", v |-> Null, rv |-> rv, buf |-> buffer,
               ret |-> Void, rel |-> <<>>, hist |-> "pushes"]
    /\ ref = <<>> /\ stale = {}
    /\ Parked

\* what has been called since construction: only pushes, pushes and then
\* one pop, or anything else
HistAfter(op) ==
    IF last.hist = "pushes"
    THEN (IF op = "push" THEN "pushes" ELSE "pushes_pop")
    ELSE "other"

FixedCall(op, v, res) ==
    /\ rv' = res.rv
    /\ buffer' = res.buf
    /\ last' = [op |-> op, v |-> v, rv |-> rv, buf |-> buffer,
                ret |-> res.ret, rel |-> <<>>, hist |-> HistAfter(op)]
    /\ UNCHANGED <<impl, T, created, released, cleared, stale>>
    /\ UNCHANGED others

\* fr.push(v)
FixedPush ==
    \E v \in 1 .. MaxVal :
        /\ FixedCall("push", v, push_back_av(T, rv, buffer, v))
        /\ ref' = ref_push_back(ref, rv.capacity_, v)

\* fr.pop()
FixedPop ==
    /\ ~empty(rv)
    /\ FixedCall("pop", Null, pop_front_av(T, rv, buffer))
    /\ ref' = Tail(ref)

NextFixed == FixedPush \/ FixedPop

SpecFixed == InitFixed /\ [][NextFixed]_vars

\* C23: for fixed_ring<T, N> started empty, after pushing v1..vk size() is
\* min(k, N), front() is v_max(1, k-N+1) and back() is vk (the reference
\* deque's length, head and last element); a following pop() lowers size()
\* by one, makes front() the next-oldest element and leaves back() as it was.
C23_FixedRingPushPop ==
    /\ (last.hist = "pushes" /\ last.op = "push") =>
          /\ size(rv) = Len(ref)
          /\ buffer[front(rv)] = ref[1]
          /\ buffer[back(rv)] = ref[Len(ref)]
          /\ buffer[back(rv)] = last.v
    /\ (last.hist = "pushes_pop" /\ last.op = "pop") =>
          /\ size(rv) = size(last.rv) - 1
          /\ size(rv) = Len(ref)
          /\ ~empty(rv) =>
                /\ buffer[front(rv)] = ref[1]
                /\ buffer[back(rv)] = last.buf[back(last.rv)]

\* C24: for the ring_view with a size counter and poppers, push_back(v) on a
\* full ring rotates the indices: the front index advances by one so the
\* oldest element is dropped, v becomes the last element of begin()..end(),
\* and size() stays at capacity().
C24_RingViewPushBackOnFullRotates ==
    (last.op = "push" /\ full(last.rv)) =>
        /\ rv.front_idx_ = (last.rv.front_idx_ + 1) % capacity(rv)
        /\ size(rv) = capacity(rv)
        /\ After = Tail(Before) \o <<last.v>>

\* --------------------------------------- ring_view with an empty_ flag
\* assignment_ring_view.h, first class: capacity_, empty_, front_idx_ and
\* back_idx_; the size is worked out from the two indices and the flag
ring_view_fl_full(cap) ==
    [capacity_ |-> cap, empty_ |-> (cap = 0), front_idx_ |-> 0, back_idx_ |-> 0]

ring_view_fl_partial(cap, first, sz) ==
    [capacity_ |-> cap, empty_ |-> (sz = 0), front_idx_ |-> first,
     back_idx_ |-> (first + sz) % cap]

empty_fl(r) == r.empty_

full_fl(r) == (~r.empty_) /\ (r.front_idx_ = r.back_idx_)

size_fl(r) ==
    IF full_fl(r) THEN r.capacity_
    ELSE (r.back_idx_ - r.front_idx_ + r.capacity_) % r.capacity_

at_fl(r, i) == (r.front_idx_ + i) % r.capacity_

pop_front_fl(r, buf) ==
    LET r1 == [r EXCEPT !.front_idx_ = (r.front_idx_ + 1) % r.capacity_]
        r2 == IF r1.front_idx_ = r1.back_idx_
              THEN [r1 EXCEPT !.empty_ = TRUE] ELSE r1
    IN  [rv |-> r2, buf |-> buf, slot |-> r.front_idx_, ret |-> TRUE]

push_back_fl(r, buf, value) ==
    LET buf1 == [buf EXCEPT ![r.back_idx_] = value]
        r1   == IF r.back_idx_ = r.front_idx_
                THEN [r EXCEPT !.front_idx_ = (r.back_idx_ + 1) % r.capacity_,
                               !.back_idx_ = (r.back_idx_ + 1) % r.capacity_]
                ELSE [r EXCEPT !.back_idx_ = (r.back_idx_ + 1) % r.capacity_]
    IN  [rv |-> r1, buf |-> buf1, slot |-> r.back_idx_, ret |-> Void]

\* begin()..end() of a flag ring: positions 0 .. size() - 1
RECURSIVE range_for_fl(_, _, _)
range_for_fl(r, buf, i) ==
    IF i # size_fl(r)
    THEN <<buf[at_fl(r, i)]>> \o range_for_fl(r, buf, i + 1)
    ELSE <<>>

InitFlag ==
    /\ impl = "assignment_ring_view.h"
    /\ T = "int"
    /\ \E cap \in 1 .. MaxCapacity :
          \/ /\ rv = ring_view_fl_full(cap)
             /\ buffer = InitBuffer(cap, 0, cap)
          \/ \E first \in Slots(cap), sz \in 0 .. cap :
                /\ rv = ring_view_fl_partial(cap, first, sz)
                /\ buffer = InitBuffer(cap, first, sz)
    /\ created = 0 /\ released = <<>> /\ cleared = FALSE
    /\ last = [op |-> "none", v |-> Null, rv |-> rv, buf |-> buffer,
               ret |-> Void, rel |-> <<>>, slot |-> Void]
    /\ ref = <<>> /\ stale = {}
    /\ Parked

FlagCall(op, v, res) ==
    /\ rv' = res.rv
    /\ buffer' = res.buf
    /\ last' = [op |-> op, v |-> v, rv |-> rv, buf |-> buffer,
                ret |-> res.ret, rel |-> <<>>, slot |-> res.slot]
    /\ UNCHANGED <<impl, T, created, released, cleared, ref, stale>>
    /\ UNCHANGED others

FlagPushBack ==
    \E v \in 1 .. MaxVal :
        FlagCall("push_back", v, push_back_fl(rv, buffer, v))

FlagPopFront ==
    /\ ~empty_fl(rv)
    /\ FlagCall("pop_front", Null, pop_front_fl(rv, buffer))

NextFlag == FlagPushBack \/ FlagPopFront

SpecFlag == InitFlag /\ [][NextFlag]_vars

\* C25: for the ring_view with the empty_ flag, push_back(v) on a ring that
\* is not full, an empty one included, assigns v at logical position size()
\* and raises size() by one, so the ring is non-empty afterwards and v is
\* the last element of begin()..end().
C25_FlagPushBackNotFull ==
    (last.op = "push_back" /\ ~full_fl(last.rv)) =>
        /\ last.slot = at_fl(last.rv, size_fl(last.rv))
        /\ buffer[last.slot] = last.v
        /\ ~empty_fl(rv)
        /\ size_fl(rv) = size_fl(last.rv) + 1
        /\ range_for_fl(rv, buffer, 0) =
               range_for_fl(last.rv, last.buf, 0) \o <<last.v>>

\* ------------------------------------------ ring_view that constructs
\* ring_view.h: a view over raw storage that constructs an element on
\* emplace_back and destroys it on pop_front. Each call returns the ring and
\* storage it leaves, its result, how it ended, the number of objects it
\* constructed (ctor) and the values of the objects it destroyed (dtor).
Raw == -2

ring_view_cv_empty(cap) ==
    [empty_ |-> TRUE, capacity_ |-> cap, front_idx_ |-> 0, back_idx_ |-> 0]

empty_cv(r) == r.empty_

full_cv(r) == (~r.empty_) /\ (r.front_idx_ = r.back_idx_)

\* a size() worked out from the two indices alone
size_cv_from_indices(r) ==
    (r.back_idx_ - r.front_idx_ + r.capacity_) % r.capacity_

size_cv(r) ==
    IF full_cv(r) THEN r.capacity_
    ELSE (r.back_idx_ - r.front_idx_ + r.capacity_) % r.capacity_

at_cv(r, i) == (r.front_idx_ + i) % r.capacity_

Stopped(r, buf) ==
    [rv |-> r, buf |-> buf, ret |-> Void, fault |-> "assert", ctor |-> 0,
     dtor |-> <<>>]

emplace_back(r, buf, v) ==
    IF full_cv(r) THEN Stopped(r, buf)
    ELSE [rv |-> [r EXCEPT !.back_idx_ = (r.back_idx_ + 1) % r.capacity_,
                           !.empty_ = FALSE],
          buf |-> [buf EXCEPT ![r.back_idx_] = v],
          ret |-> Void, fault |-> "none", ctor |-> 1, dtor |-> <<>>]

try_emplace_back(r, buf, v) ==
    IF full_cv(r)
    THEN [rv |-> r, buf |-> buf, ret |-> FALSE, fault |-> "none", ctor |-> 0,
          dtor |-> <<>>]
    ELSE [emplace_back(r, buf, v) EXCEPT !.ret = TRUE]

\* a pop_front that lets go of the slot without running the destructor
pop_front_cv_forgets(r, buf) ==
    IF empty_cv(r) THEN Stopped(r, buf)
    ELSE LET f == (r.front_idx_ + 1) % r.capacity_
         IN  [rv |-> [r EXCEPT !.front_idx_ = f,
                               !.empty_ = (f = r.back_idx_)],
              buf |-> buf,
              ret |-> TRUE, fault |-> "none", ctor |-> 0, dtor |-> <<>>]

pop_front_cv(r, buf) ==
    IF empty_cv(r) THEN Stopped(r, buf)
    ELSE LET f == (r.front_idx_ + 1) % r.capacity_
         IN  [rv |-> [r EXCEPT !.front_idx_ = f,
                               !.empty_ = (f = r.back_idx_)],
              buf |-> [buf EXCEPT ![r.front_idx_] = Raw],
              ret |-> TRUE, fault |-> "none", ctor |-> 0,
              dtor |-> <<buf[r.front_idx_]>>]

\* an overwrite that leaves the indices where they are
assign_when_full_in_place(r, buf, v) ==
    IF ~full_cv(r) THEN Stopped(r, buf)
    ELSE [rv |-> r,
          buf |-> [buf EXCEPT ![r.front_idx_] = v],
          ret |-> Void, fault |-> "none", ctor |-> 0, dtor |-> <<>>]

assign_when_full(r, buf, v) ==
    IF ~full_cv(r) THEN Stopped(r, buf)
    ELSE [rv |-> [r EXCEPT !.front_idx_ = (r.front_idx_ + 1) % r.capacity_,
                           !.back_idx_ = (r.front_idx_ + 1) % r.capacity_],
          buf |-> [buf EXCEPT ![r.front_idx_] = v],
          ret |-> Void, fault |-> "none", ctor |-> 0, dtor |-> <<>>]

\* the temporary T(args...) handed to assign_when_full is constructed and
\* destroyed by the call
emplace_or_assign(r, buf, v) ==
    LET tried == try_emplace_back(r, buf, v)
    IN  IF tried.ret THEN [tried EXCEPT !.ret = Void]
        ELSE [assign_when_full(tried.rv, tried.buf, v)
                  EXCEPT !.ctor = 1, !.dtor = <<v>>]

RECURSIVE range_for_cv(_, _, _)
range_for_cv(r, buf, i) ==
    IF i # size_cv(r)
    THEN <<buf[at_cv(r, i)]>> \o range_for_cv(r, buf, i + 1)
    ELSE <<>>

\* ring_view<T> rw(storage, cap): empty, over storage holding no object
InitConstruct ==
    /\ impl = "ring_view.h"
    /\ T = "int"
    /\ \E cap \in 1 .. MaxCapacity :
          /\ rv = ring_view_cv_empty(cap)
          /\ buffer = [i \in Slots(cap) |-> Raw]
    /\ created = 0 /\ released = <<>> /\ cleared = FALSE
    /\ last = [op |-> "none", v |-> Null, rv |-> rv, buf |-> buffer,
               ret |-> Void, rel |-> <<>>, ctor |-> 0]
    /\ ref = <<>> /\ stale = {}
    /\ Parked

\* created is ctor_count, Len(released) is dtor_count
CvCall(op, v, res) ==
    /\ fault = "none"
    /\ rv' = res.rv
    /\ buffer' = res.buf
    /\ created' = created + res.ctor
    /\ released' = released \o res.dtor
    /\ fault' = res.fault
    /\ last' = [op |-> op, v |-> v, rv |-> rv, buf |-> buffer,
                ret |-> res.ret, rel |-> res.dtor, ctor |-> created]
    /\ UNCHANGED <<impl, T, cleared, stale, it, rings, arrays, nops, threads>>

\* the values handed in are 1, 2, 3, ... as in main
NextValue == IF created < MaxResources THEN {created + 1} ELSE {}

EmplaceBack ==
    \E v \in NextValue :
        /\ CvCall("emplace_back", v, emplace_back(rv, buffer, v))
        /\ ref' = IF full_cv(rv) THEN ref ELSE Append(ref, v)

TryEmplaceBack ==
    \E v \in NextValue :
        /\ CvCall("try_emplace_back", v, try_emplace_back(rv, buffer, v))
        /\ ref' = IF full_cv(rv) THEN ref ELSE Append(ref, v)

PopFrontCv ==
    /\ CvCall("pop_front", Null, pop_front_cv(rv, buffer))
    /\ ref' = IF empty_cv(rv) THEN ref ELSE Tail(ref)

AssignWhenFull ==
    \E v \in NextValue :
        /\ CvCall("assign_when_full", v, assign_when_full(rv, buffer, v))
        /\ ref' = IF full_cv(rv) THEN ref_push_back(ref, rv.capacity_, v)
                                 ELSE ref

EmplaceOrAssign ==
    \E v \in NextValue :
        /\ CvCall("emplace_or_assign", v, emplace_or_assign(rv, buffer, v))
        /\ ref' = ref_push_back(ref, rv.capacity_, v)

NextConstruct ==
    \/ EmplaceBack \/ TryEmplaceBack \/ PopFrontCv
    \/ AssignWhenFull \/ EmplaceOrAssign

SpecConstruct == InitConstruct /\ [][NextConstruct]_vars

\* the slots of storage that hold an object
Alive == {i \in DOMAIN buffer : buffer[i] # Raw}

\* C26: for the constructing ring_view started empty over raw storage,
\* emplace_back constructs exactly one element and pop_front destroys exactly
\* one: in every reachable state constructions minus destructions equals
\* size(), capacity() never changes, and once everything is popped the ring
\* is empty with as many destructions as constructions.
C26_ConstructDestroyBalance ==
    /\ created - Len(released) = size_cv(rv)
    /\ Cardinality(Alive) = size_cv(rv)
    /\ capacity(rv) = capacity(last.rv)
    /\ (last.op = "emplace_back" /\ fault = "none") =>
           (created = last.ctor + 1 /\ last.rel = <<>>)
    /\ (last.op = "pop_front" /\ fault = "none") =>
           (created = last.ctor /\ Len(last.rel) = 1)
    /\ empty_cv(rv) => (size_cv(rv) = 0 /\ created = Len(released))

\* three emplace_back, three pop_front, as in main
C26_Witness ==
    /\ last.op = "pop_front" /\ fault = "none"
    /\ empty_cv(rv)
    /\ created = 3 /\ released = <<1, 2, 3>>
    /\ capacity(rv) = 2

\* C37: in ring_view.h, over every run of emplace_back on a ring that is not
\* full, pop_front on one that is not empty and assign_when_full on a full
\* one (and the calls built from them), size() as worked out from
\* front_idx_, back_idx_ and empty_ is the count a size counter run beside
\* the ring holds (the length of ref), empty() holds exactly when that count
\* is 0 and full() exactly when it is capacity().
C37_FlagAgreesWithCounter ==
    fault = "none" =>
        /\ size_cv(rv) = Len(ref)
        /\ empty_cv(rv) <=> (Len(ref) = 0)
        /\ full_cv(rv) <=> (Len(ref) = capacity(rv))
        /\ size_cv(rv) \in 0 .. capacity(rv)

\* a full ring of three whose two indices meet away from slot 0, after an
\* assign_when_full that moved both
C37_Witness ==
    /\ fault = "none" /\ last.op = "assign_when_full"
    /\ capacity(rv) = 3 /\ full_cv(rv) /\ ~empty_cv(rv)
    /\ rv.front_idx_ = rv.back_idx_ /\ rv.front_idx_ = 2
    /\ size_cv(rv) = 3 /\ Len(ref) = 3

\* C27: try_emplace_back on a full ring returns false and changes nothing;
\* emplace_or_assign(v) always succeeds: it appends v when the ring is not
\* full and, when it is full, assigns v over the oldest slot and rotates
\* both indices, so the ring holds the most recent min(k, capacity) values,
\* oldest to newest.
C27_EmplaceOrAssign ==
    /\ (last.op = "try_emplace_back" /\ full_cv(last.rv)) =>
           /\ last.ret = FALSE
           /\ rv = last.rv /\ buffer = last.buf
           /\ created = last.ctor /\ last.rel = <<>>
           /\ fault = "none"
    /\ last.op = "emplace_or_assign" =>
           /\ fault = "none"
           /\ range_for_cv(rv, buffer, 0) =
                  ref_push_back(range_for_cv(last.rv, last.buf, 0),
                                capacity(rv), last.v)
           /\ full_cv(last.rv) =>
                  /\ buffer[last.rv.front_idx_] = last.v
                  /\ rv.front_idx_ = (last.rv.front_idx_ + 1) % capacity(rv)
                  /\ rv.back_idx_ = rv.front_idx_
                  /\ size_cv(rv) = capacity(rv)
           /\ ~full_cv(last.rv) => size_cv(rv) = size_cv(last.rv) + 1
    /\ fault = "none" => range_for_cv(rv, buffer, 0) = ref

C27_Witness ==
    /\ last.op = "emplace_or_assign" /\ full_cv(last.rv)
    /\ capacity(rv) >= 2
    /\ last.rv.front_idx_ = capacity(rv) - 1
    /\ rv.front_idx_ = 0

\* ------------------------------------------- a start offset up to `end`
\* ring_span constructed full, or partially with first anywhere in
\* [begin, end] and a count up to the capacity, then pushed and popped
InitEdge ==
    /\ impl \in Impls
    /\ T \in ElemTypes
    /\ \E cap \in 1 .. MaxCapacity, p \in Poppers(impl, T) :
          \/ /\ rv = ring_span_full(cap, p)
             /\ buffer = InitBuffer(cap, 0, cap)
             /\ last = [op |-> "ring_span", v |-> Null, rv |-> rv,
                        buf |-> buffer, ret |-> Void, rel |-> <<>>,
                        first |-> 0, count |-> cap]
          \/ \E first \in 0 .. cap, sz \in 0 .. cap :
                /\ rv = ring_span_partial(cap, first, sz, p)
                /\ buffer = InitBuffer(cap, first, sz)
                /\ last = [op |-> "ring_span", v |-> Null, rv |-> rv,
                           buf |-> buffer, ret |-> Void, rel |-> <<>>,
                           first |-> first, count |-> sz]
    /\ created = IF T = "unique_ptr"
                 THEN Cardinality({i \in DOMAIN buffer : buffer[i] # Null})
                 ELSE 0
    /\ released = <<>>
    /\ cleared = FALSE
    /\ ref = <<>>
    /\ stale = {}
    /\ Parked

SpecEdge == InitEdge /\ [][NextRaw]_vars

\* C28: for a ring_span constructed full, or partially with start offset in
\* [0, capacity] and count <= capacity, after any sequence of pushes and
\* non-empty pops front_idx_ < capacity_ whenever size_ > 0, and every slot
\* index a call reads or writes, the front slot pop_front takes directly
\* included, lies in [0, capacity_).
C28_WindowInsideStorage ==
    /\ size(rv) > 0 => rv.front_idx_ < capacity(rv)
    /\ fault # "oob"
    /\ (last.op \in push_ops \cup pop_ops /\ fault # "assert") =>
           touched(last.op, last.rv) \in Slots(capacity(last.rv))

\* ------------------------------------------ push and pop with no mutex
\* thread "ci" runs one r.push_back(v) and thread "po" one r.pop_front() on
\* the same ring_span (ring_span.h) with nothing held: each read and each
\* write of size_, front_idx_ and of a slot is a step of its own, and the
\* steps of the two calls interleave freely
RaceStart == [t \in Threads |-> IF t = "ci" THEN "back_idx_front" ELSE "assert"]

InitRace ==
    /\ impl = "ring_span.h"
    /\ T = "int"
    /\ \E cap \in 1 .. MaxCapacity :
          \/ /\ rv = ring_span_full(cap, [kind |-> "move", t_ |-> Null])
             /\ buffer = InitBuffer(cap, 0, cap)
          \/ \E first \in Slots(cap), sz \in 0 .. cap :
                /\ rv = ring_span_partial(cap, first, sz,
                                          [kind |-> "move", t_ |-> Null])
                /\ buffer = InitBuffer(cap, first, sz)
    /\ \E v \in 1 .. MaxVal :
          last = [op |-> "race", v |-> v, rv |-> rv, buf |-> buffer,
                  ret |-> Void, rel |-> <<>>, overlap |-> FALSE]
    /\ created = 0 /\ released = <<>> /\ cleared = FALSE
    /\ ref = <<>> /\ stale = {}
    /\ fault = "none" /\ it = 0 /\ rings = <<>> /\ arrays = <<>> /\ nops = 0
    /\ pc = RaceStart
    /\ mutex = "free"
    /\ waiting = {}
    /\ regs = [t \in Threads |-> [f |-> 0, s |-> 0, old |-> 0, ret |-> Void]]

Other(t) == CHOOSE u \in Threads : u # t

\* thread t is between the first and the last step of its call
Inside(t) == pc[t] \notin {RaceStart[t], "done"}

\* one step of thread t: from label `from` to label `to`, leaving the ring
\* r, the storage buf and its own locals l
RaceStep(t, from, to, r, buf, l) ==
    /\ pc[t] = from /\ fault = "none"
    /\ pc' = [pc EXCEPT ![t] = to]
    /\ rv' = r
    /\ buffer' = buf
    /\ regs' = [regs EXCEPT ![t] = l]
    /\ last' = [last EXCEPT !.overlap = last.overlap \/ Inside(Other(t))]
    /\ UNCHANGED <<impl, T, created, released, cleared, ref, stale, fault, it,
                   rings, arrays, nops, mutex, waiting>>

\* pop_front: assert(not empty())
PopAssert ==
    /\ pc["po"] = "assert" /\ fault = "none"
    /\ IF assert_not_empty(rv)
       THEN /\ pc' = [pc EXCEPT !["po"] = "old_front_idx"]
            /\ UNCHANGED fault
       ELSE /\ fault' = "assert"
            /\ UNCHANGED pc
    /\ last' = [last EXCEPT !.overlap = last.overlap \/ Inside("ci")]
    /\ UNCHANGED <<impl, T, rv, buffer, created, released, cleared, ref, stale,
                   it, rings, arrays, nops, mutex, waiting, regs>>

\* auto old_front_idx = front_idx_
PopOldFront ==
    RaceStep("po", "old_front_idx", "front_read", rv, buffer,
             [regs["po"] EXCEPT !.old = rv.front_idx_])

\* front_idx_ = (front_idx_ + 1) % capacity_
PopFrontRead ==
    RaceStep("po", "front_read", "front_write", rv, buffer,
             [regs["po"] EXCEPT !.f = rv.front_idx_])

PopFrontWrite ==
    RaceStep("po", "front_write", "size_read",
             [rv EXCEPT !.front_idx_ = (regs["po"].f + 1) % rv.capacity_],
             buffer, regs["po"])

\* --size_
PopSizeRead ==
    RaceStep("po", "size_read", "size_write", rv, buffer,
             [regs["po"] EXCEPT !.s = rv.size_])

PopSizeWrite ==
    RaceStep("po", "size_write", "popper",
             [rv EXCEPT !.size_ = regs["po"].s - 1], buffer, regs["po"])

\* return popper_(data_[old_front_idx])
PopPopper ==
    LET p == popper_(T, rv.popper_, buffer[regs["po"].old])
    IN  RaceStep("po", "popper", "done", rv,
                 [buffer EXCEPT ![regs["po"].old] = p.slot],
                 [regs["po"] EXCEPT !.ret = p.ret])

\* push_back: data_[back_idx()] = value, back_idx() reading front_idx_ and
\* size_
PushBackIdxFront ==
    RaceStep("ci", "back_idx_front", "back_idx_size", rv, buffer,
             [regs["ci"] EXCEPT !.f = rv.front_idx_])

PushBackIdxSize ==
    RaceStep("ci", "back_idx_size", "assign", rv, buffer,
             [regs["ci"] EXCEPT !.s = rv.size_])

PushAssign ==
    RaceStep("ci", "assign", "full", rv,
             [buffer EXCEPT
                 ![(regs["ci"].f + regs["ci"].s) % rv.capacity_] = last.v],
             regs["ci"])

\* if (not full())
PushFull ==
    RaceStep("ci", "full", IF ~full(rv) THEN "size_read" ELSE "front_read",
             rv, buffer, regs["ci"])

\* ++size_
PushSizeRead ==
    RaceStep("ci", "size_read", "size_write", rv, buffer,
             [regs["ci"] EXCEPT !.s = rv.size_])

PushSizeWrite ==
    RaceStep("ci", "size_write", "done",
             [rv EXCEPT !.size_ = regs["ci"].s + 1], buffer, regs["ci"])

\* else front_idx_ = (front_idx_ + 1) % capacity_
PushFrontRead ==
    RaceStep("ci", "front_read", "front_write", rv, buffer,
             [regs["ci"] EXCEPT !.f = rv.front_idx_])

PushFrontWrite ==
    RaceStep("ci", "front_write", "done",
             [rv EXCEPT !.front_idx_ = (regs["ci"].f + 1) % rv.capacity_],
             buffer, regs["ci"])

NextRace ==
    \/ PopAssert \/ PopOldFront \/ PopFrontRead \/ PopFrontWrite
    \/ PopSizeRead \/ PopSizeWrite \/ PopPopper
    \/ PushBackIdxFront \/ PushBackIdxSize \/ PushAssign \/ PushFull
    \/ PushSizeRead \/ PushSizeWrite \/ PushFrontRead \/ PushFrontWrite

SpecRace == InitRace /\ [][NextRace]_vars

\* the ring, the storage and the popped value once both calls have returned
Final == [rv |-> rv, buf |-> buffer, ret |-> regs["po"].ret]

\* push_back(v) then pop_front(), and pop_front() then push_back(v), each
\* call run as a whole on the ring as constructed
PushThenPop ==
    LET a == push_back_rs(T, last.rv, last.buf, last.v)
        b == pop_front_rs(T, a.rv, a.buf)
    IN  [rv |-> b.rv, buf |-> b.buf, ret |-> b.ret]

PopThenPush ==
    LET a == pop_front_rs(T, last.rv, last.buf)
        b == push_back_rs(T, a.rv, a.buf, last.v)
    IN  [rv |-> b.rv, buf |-> b.buf, ret |-> a.ret]

Sequential ==
    {PushThenPop} \cup (IF empty(last.rv) THEN {} ELSE {PopThenPush})

BothDone == pc["ci"] = "done" /\ pc["po"] = "done"

\* C30: with no mutual exclusion the field reads and writes of a push_back
\* interleave with those of a pop_front on the same ring_span, nothing in
\* the ring holds either call back, and a state is reachable (the witness)
\* that neither sequential order of the two calls produces; only runs in
\* which the calls do not overlap are sure to end in a sequential outcome.
C30_OnlyDisjointCallsAreSequential ==
    /\ mutex = "free" /\ waiting = {}
    /\ (BothDone /\ ~last.overlap) => Final \in Sequential

\* a lost update: both calls returned and size() is one more than either
\* order of the two calls leaves it
C30_Witness ==
    /\ BothDone /\ fault = "none"
    /\ Final \notin Sequential
    /\ size(rv) = size(last.rv) + 1
    /\ capacity(rv) >= 2

\* ------------------------------------------- the two headers side by side
\* the same program built once against ring.h and once against ring_span.h:
\* rings[h] and arrays[h] are the ring and the array of the build against
\* header h, and every call is made in both builds with the same argument;
\* rv and buffer follow the build against ring.h
InitPair ==
    /\ impl = "both"
    /\ T \in ElemTypes
    /\ \E cap \in 1 .. MaxCapacity, p \in Poppers("ring.h", T) :
          \/ /\ rv = ring_span_full(cap, p)
             /\ buffer = InitBuffer(cap, 0, cap)
          \/ \E first \in Slots(cap), sz \in 0 .. cap :
                /\ rv = ring_span_partial(cap, first, sz, p)
                /\ buffer = InitBuffer(cap, first, sz)
    /\ rings = [h \in Impls |-> rv]
    /\ arrays = [h \in Impls |-> buffer]
    /\ created = IF T = "unique_ptr" THEN rv.size_ ELSE 0
    /\ released = <<>>
    /\ cleared = FALSE
    /\ last = [op |-> "none", v |-> Null, rings |-> rings, arrays |-> arrays,
               ret |-> [h \in Impls |-> Void], rel |-> [h \in Impls |-> <<>>]]
    /\ ref = <<>> /\ stale = {}
    /\ fault = "none" /\ it = 0 /\ nops = 0
    /\ NoThreads

\* one call made in both builds: res[h] is what the call does in build h
PairCall(op, v, res) ==
    /\ rings' = [h \in Impls |-> res[h].rv]
    /\ arrays' = [h \in Impls |-> res[h].buf]
    /\ last' = [op |-> op, v |-> v, rings |-> rings, arrays |-> arrays,
                ret |-> [h \in Impls |-> res[h].ret],
                rel |-> [h \in Impls |-> res[h].rel \o Discard(res[h].ret)]]
    /\ released' = released \o res["ring.h"].rel \o Discard(res["ring.h"].ret)
    /\ created' = IF T = "unique_ptr" /\ v # Null THEN v ELSE created
    /\ rv' = res["ring.h"].rv
    /\ buffer' = res["ring.h"].buf
    /\ UNCHANGED <<impl, T, cleared, ref, stale, fault, it, nops, threads>>

PairPushBack ==
    \E v \in PushValues :
       PairCall("push_back", v,
                [h \in Impls |->
                    IF h = "ring.h"
                    THEN push_back(T, rings[h], arrays[h], v)
                    ELSE push_back_rs(T, rings[h], arrays[h], v)])

PairPushFront ==
    \E v \in PushValues :
       PairCall("push_front", v,
                [h \in Impls |->
                    IF h = "ring.h"
                    THEN push_front(T, rings[h], arrays[h], v)
                    ELSE push_front_rs(T, rings[h], arrays[h], v)])

PairPopFront ==
    /\ \A h \in Impls : assert_not_empty(rings[h])
    /\ PairCall("pop_front", Null,
                [h \in Impls |->
                    IF h = "ring.h"
                    THEN pop_front(T, rings[h], arrays[h])
                    ELSE pop_front_rs(T, rings[h], arrays[h])])

PairPopBack ==
    /\ \A h \in Impls : assert_not_empty(rings[h])
    /\ PairCall("pop_back", Null,
                [h \in Impls |->
                    IF h = "ring.h"
                    THEN pop_back(T, rings[h], arrays[h])
                    ELSE pop_back_rs(T, rings[h], arrays[h])])

NextPair == PairPushBack \/ PairPushFront \/ PairPopFront \/ PairPopBack

SpecPair == InitPair /\ [][NextPair]_vars

\* C31: run side by side from the same ring on the same calls of push_back,
\* push_front, pop_front and pop_back, the ring of ring.h and the ring of
\* ring_span.h have the same size, the same front index and the same
\* capacity, their arrays hold the same contents, and the call just made
\* returned the same value and destroyed the same resources in both.
C31_HeadersAgree ==
    /\ size(rings["ring.h"]) = size(rings["ring_span.h"])
    /\ rings["ring.h"].front_idx_ = rings["ring_span.h"].front_idx_
    /\ capacity(rings["ring.h"]) = capacity(rings["ring_span.h"])
    /\ arrays["ring.h"] = arrays["ring_span.h"]
    /\ last.ret["ring.h"] = last.ret["ring_span.h"]
    /\ last.rel["ring.h"] = last.rel["ring_span.h"]

\* a push_front on a full ring of three unique_ptrs that wraps the front
\* index round and destroys the element it displaces, in both builds
C31_Witness ==
    /\ last.op = "push_front"
    /\ \A h \in Impls :
          /\ full(last.rings[h]) /\ capacity(rings[h]) = 3
          /\ last.rings[h].front_idx_ = 0 /\ rings[h].front_idx_ = 2
          /\ last.rel[h] # <<>>
    /\ T = "unique_ptr"

\* --------------------------------------------- a push and the pop after it
\* a ring of ring.h under the calls of Next, the call before the last one
\* kept in last.prev with the ring it was made on
InitTrip ==
    /\ impl = "ring.h"
    /\ T \in ElemTypes
    /\ \E cap \in 1 .. MaxCapacity, p \in Poppers(impl, T) :
          \/ /\ rv = ring_span_full(cap, p)
             /\ buffer = InitBuffer(cap, 0, cap)
          \/ \E first \in Slots(cap), sz \in 0 .. cap :
                /\ rv = ring_span_partial(cap, first, sz, p)
                /\ buffer = InitBuffer(cap, first, sz)
    /\ created = IF T = "unique_ptr" THEN rv.size_ ELSE 0
    /\ released = <<>>
    /\ cleared = FALSE
    /\ last = [op |-> "none", v |-> Null, rv |-> rv, buf |-> buffer,
               ret |-> Void, rel |-> <<>>,
               prev |-> [op |-> "none", v |-> Null, rv |-> rv]]
    /\ ref = <<>> /\ stale = {}
    /\ Parked

TripCall(op, v, res) ==
    /\ rv' = res.rv
    /\ buffer' = res.buf
    /\ released' = released \o res.rel \o Discard(res.ret)
    /\ created' = IF T = "unique_ptr" /\ v # Null THEN v ELSE created
    /\ last' = [op |-> op, v |-> v, rv |-> rv, buf |-> buffer,
                ret |-> res.ret, rel |-> res.rel \o Discard(res.ret),
                prev |-> [op |-> last.op, v |-> last.v, rv |-> last.rv]]
    /\ UNCHANGED <<impl, T, cleared, ref, stale>>
    /\ UNCHANGED others

TripPushBack ==
    \E v \in PushValues : TripCall("push_back", v, push_back(T, rv, buffer, v))

TripPushFront ==
    \E v \in PushValues :
       TripCall("push_front", v, push_front(T, rv, buffer, v))

TripPopFront ==
    /\ assert_not_empty(rv)
    /\ TripCall("pop_front", Null, pop_front(T, rv, buffer))

TripPopBack ==
    /\ assert_not_empty(rv)
    /\ TripCall("pop_back", Null, pop_back(T, rv, buffer))

NextTrip == TripPushBack \/ TripPushFront \/ TripPopFront \/ TripPopBack

SpecTrip == InitTrip /\ [][NextTrip]_vars

\* the last two calls were push then pop, the push on a ring that was not
\* full
TripOf(pushing, popping) ==
    /\ last.op = popping /\ last.prev.op = pushing
    /\ ~full(last.prev.rv)

\* C32: on a ring that is not full, push_back(v) followed by pop_back()
\* leaves size() and the front index as they were before the push, and with
\* the move-out popper the pop returns v; the same holds of push_front(v)
\* followed by pop_front().
C32_PushThenPopSameEnd ==
    (TripOf("push_back", "pop_back") \/ TripOf("push_front", "pop_front")) =>
        /\ size(rv) = size(last.prev.rv)
        /\ rv.front_idx_ = last.prev.rv.front_idx_
        /\ capacity(rv) = capacity(last.prev.rv)
        /\ rv.popper_.kind = "move" => last.ret = last.prev.v

\* push_back(v) then pop_back() on a ring of two or more elements that is
\* not full and whose window wraps, the pop moving v out
C32_Witness ==
    /\ TripOf("push_back", "pop_back")
    /\ rv.popper_.kind = "move"
    /\ size(rv) >= 2 /\ rv.front_idx_ > 0
    /\ last.ret = last.prev.v /\ last.ret # Null

\* push_front(v) then pop_front() on a ring whose front index is 0, so that
\* the push wraps it round and the pop wraps it back
C32_WitnessFront ==
    /\ TripOf("push_front", "pop_front")
    /\ rv.popper_.kind = "move"
    /\ rv.front_idx_ = 0 /\ last.rv.front_idx_ = capacity(rv) - 1
    /\ last.ret = last.prev.v

\* --------------------------------- producer and consumer, to the terminator
\* thread_communication_test with the values read told apart: the k-th value
\* read from std::cin is k (created counts them), or it is the terminator -1
ProducerReadNext ==
    /\ pc["ci"] = "read" /\ fault = "none"
    /\ \E v \in (IF created < MaxResources THEN {created + 1} ELSE {})
                \cup {Quit} :
          /\ regs' = [regs EXCEPT !["ci"] = v]
          /\ created' = IF v = Quit THEN created ELSE v
    /\ Goto("ci", "lock")
    /\ UNCHANGED <<impl, T, rv, buffer, released, cleared, last, ref, stale,
                   fault, it, rings, arrays, nops, mutex, waiting>>

\* the steps of thread ci, and those of thread po that are po's own doing
Producer ==
    \/ ProducerReadNext \/ ProducerLock \/ ProducerPush \/ ProducerNotify
    \/ ProducerUnlock

Consumer ==
    \/ ConsumerLock \/ ConsumerCheck \/ ConsumerWoken \/ ConsumerPop
    \/ ConsumerUnlock

NextFair == Producer \/ Consumer \/ SpuriousWake

\* both threads keep running: std::async(std::launch::async, ...) gives each
\* its own thread
SpecFair ==
    /\ InitThreads
    /\ [][NextFair]_vars
    /\ WF_vars(Producer)
    /\ WF_vars(Consumer)

\* the place of a value in the order of production, the terminator last
Rank(v) == IF v = Quit THEN MaxResources + 1 ELSE v

\* the terminator is in the ring from its push to its pop, as newest element
TerminatorKept ==
    (/\ regs["ci"] = Quit /\ pc["ci"] \in {"notify", "unlock", "done"}
     /\ regs["po"] # Quit)
    => (~empty(rv) /\ buffer[back(rv)] = Quit)

\* the ring holds values in the order of production, all of them produced
\* after the value the consumer popped last, and a pop takes the oldest
InOrder ==
    /\ \A i \in 1 .. Len(After) - 1 : Rank(After[i]) < Rank(After[i + 1])
    /\ After # <<>> => Rank(regs["po"]) < Rank(After[1])
    /\ (last.op = "pop_front" /\ Before # <<>>) =>
          /\ last.ret = Before[1]
          /\ \A i \in 1 .. Len(After) : Rank(last.ret) < Rank(After[i])

\* C33: in thread_communication_test, once the producer has pushed the
\* terminator -1 and stopped, the terminator stays in the ring until the
\* consumer pops it, and with both threads weakly fair the consumer
\* eventually pops -1 and terminates; the values the consumer pops come in
\* the order they were produced.
C33_TerminatorReachesConsumer ==
    /\ [](TerminatorKept /\ InOrder)
    /\ (pc["ci"] = "done") ~> (pc["po"] = "done" /\ regs["po"] = Quit)

\* both loops have ended, the producer having read three values before the
\* terminator into a ring of two, the consumer having waited on the empty
\* ring at least once (the front index has moved)
C33_Witness ==
    /\ pc["ci"] = "done" /\ pc["po"] = "done"
    /\ regs["po"] = Quit /\ last.op = "pop_front" /\ last.ret = Quit
    /\ created >= 3 /\ capacity(rv) = 2 /\ empty(rv)

\* ------------------------------------------------------ reverse traversal
\* for (auto ri = r.rbegin(); ri != r.rend(); ++ri) use(*ri) over one ring as
\* constructed; `it` is the cursor inside ri, last.seen the values used so
\* far and last.pos the logical positions they were read at
ReverseOps == {"rbegin()", "*ri, ++ri", "ri == rend()"}

ReverseCall(op, current, seen, pos) ==
    /\ current \in 0 .. MaxCursor
    /\ it' = current
    /\ last' = [op |-> op, v |-> Null, rv |-> rv, buf |-> buffer,
                ret |-> current, rel |-> <<>>, seen |-> seen, pos |-> pos]
    /\ UNCHANGED <<impl, T, rv, buffer, created, released, cleared, ref, stale>>
    /\ UNCHANGED <<fault, rings, arrays, nops, threads>>

ReverseBegin ==
    /\ last.op = "none"
    /\ ReverseCall("rbegin()", rbegin(rv), <<>>, <<>>)

\* the loop test passes: the body reads *ri, then ++ri
ReverseVisit ==
    /\ last.op \in {"rbegin()", "*ri, ++ri"}
    /\ it # rend(rv)
    /\ ReverseCall("*ri, ++ri", reverse_inc(it),
                   Append(last.seen, buffer[reverse_deref(rv, it)]),
                   Append(last.pos, reverse_position(it)))

\* the loop test fails: the traversal is over
ReverseEnd ==
    /\ last.op \in {"rbegin()", "*ri, ++ri"}
    /\ it = rend(rv)
    /\ ReverseCall("ri == rend()", it, last.seen, last.pos)

NextReverse == ReverseBegin \/ ReverseVisit \/ ReverseEnd

SpecReverse == Init /\ [][NextReverse]_vars

RECURSIVE Reversed(_)
Reversed(q) == IF q = <<>> THEN <<>> ELSE Reversed(Tail(q)) \o <<Head(q)>>

\* C34: a traversal from rbegin() to rend() reads logical positions in
\* [0, size()) only, newest first, never reads more than size() elements, and
\* having started it comes to rend() (it is not left without a step short of
\* it); at rend() it has read exactly the begin()..end() sequence reversed.
C34_ReverseTraversal ==
    last.op \in ReverseOps =>
        /\ \A k \in DOMAIN last.pos :
              /\ last.pos[k] \in 0 .. size(rv) - 1
              /\ last.pos[k] = size(rv) - k
        /\ Len(last.seen) <= size(rv)
        /\ last.seen = SubSeq(Reversed(Before), 1, Len(last.seen))
        /\ last.op = "ri == rend()" => last.seen = Reversed(Before)
        /\ it \in 0 .. size(rv)

\* ------------------------------------------------------ two fixed_rings
\* fixed_ring<int, N> a, b: arrays[n] is the std::array ctr_ of ring n and
\* rings[n] its ring_view rv_, whose data_ names the array it points into
FixedNames == {"a", "b"}

\* std::swap of two ring_views: tmp = move(x), x = move(y), y = move(tmp),
\* every member going along, data_ included
std_swap(x, y) == [lhs |-> y, rhs |-> x]

\* a.swap(b): swap(ctr_, rhs.ctr_) exchanges the elements of the two arrays,
\* swap(rv_, rhs.rv_) exchanges the two views
fixed_ring_swap(lhs, rhs) ==
    [lhs |-> [ctr_ |-> std_swap(lhs.ctr_, rhs.ctr_).lhs,
              rv_ |-> std_swap(lhs.rv_, rhs.rv_).lhs],
     rhs |-> [ctr_ |-> std_swap(lhs.ctr_, rhs.ctr_).rhs,
              rv_ |-> std_swap(lhs.rv_, rhs.rv_).rhs]]

\* fixed_ring<int, N> a, b;
InitOwning ==
    /\ impl = "assignment_ring_view.h"
    /\ T = "int"
    /\ \E N \in 1 .. MaxCapacity, p \in RingViewPoppers :
          /\ arrays = [n \in FixedNames |-> [i \in Slots(N) |-> Null]]
          /\ rings = [n \in FixedNames |->
                         ring_span_over(n, ring_view_partial(N, 0, 0, p))]
    /\ nops = 0
    /\ last = [op |-> "none", ring |-> "a", v |-> Null, rings |-> rings,
               arrays |-> arrays, ret |-> Void]
    /\ rv = ring_span_full(1, [kind |-> "null", t_ |-> Null])
    /\ buffer = [i \in Slots(1) |-> Null]
    /\ created = 0 /\ released = <<>> /\ cleared = FALSE
    /\ ref = <<>> /\ stale = {}
    /\ fault = "none" /\ it = 0
    /\ NoThreads

\* a call handed on to rv_ of ring n: it acts on the array rv_ points into
OwningCall(op, n, v, res) ==
    /\ nops < MaxViewOps
    /\ nops' = nops + 1
    /\ rings' = [rings EXCEPT ![n] = res.rv]
    /\ arrays' = [arrays EXCEPT ![rings[n].data_] = res.buf]
    /\ last' = [op |-> op, ring |-> n, v |-> v, rings |-> rings,
                arrays |-> arrays, ret |-> res.ret]
    /\ UNCHANGED <<impl, T, rv, buffer, created, released, cleared, ref,
                   stale, fault, it, threads>>

\* n.push(v)
OwningPush ==
    \E n \in FixedNames, v \in 1 .. MaxVal :
        OwningCall("push", n, v,
                   push_back_av(T, rings[n], arrays[rings[n].data_], v))

\* n.pop()
OwningPop ==
    \E n \in FixedNames :
        /\ ~empty(rings[n])
        /\ OwningCall("pop", n, Null,
                      pop_front_av(T, rings[n], arrays[rings[n].data_]))

\* a.swap(b)
OwningSwap ==
    /\ nops < MaxViewOps
    /\ nops' = nops + 1
    /\ LET res == fixed_ring_swap([ctr_ |-> arrays["a"], rv_ |-> rings["a"]],
                                  [ctr_ |-> arrays["b"], rv_ |-> rings["b"]])
       IN  /\ rings' = [n \in FixedNames |->
                           IF n = "a" THEN res.lhs.rv_ ELSE res.rhs.rv_]
           /\ arrays' = [n \in FixedNames |->
                            IF n = "a" THEN res.lhs.ctr_ ELSE res.rhs.ctr_]
    /\ last' = [op |-> "swap", ring |-> "a", v |-> Null, rings |-> rings,
                arrays |-> arrays, ret |-> Void]
    /\ UNCHANGED <<impl, T, rv, buffer, created, released, cleared, ref,
                   stale, fault, it, threads>>

NextOwning == OwningPush \/ OwningPop \/ OwningSwap

SpecOwning == InitOwning /\ [][NextOwning]_vars

\* the elements of fixed_ring n, oldest first, as its view reads them
Elements(rs, as, n) == rv_to_string(rs[n], as[rs[n].data_])

\* C35: after a.swap(b) the size, the front and back elements and the element
\* sequence of a are those b had before the call and those of b are those a
\* had, and the view inside each ring points into that ring's own array.
C35_FixedRingSwap ==
    last.op = "swap" =>
        \A n \in FixedNames : \A m \in FixedNames \ {n} :
            /\ size(rings[n]) = size(last.rings[m])
            /\ Elements(rings, arrays, n) =
                   Elements(last.rings, last.arrays, m)
            /\ ~empty(rings[n]) =>
                  /\ arrays[rings[n].data_][front(rings[n])] =
                         last.arrays[last.rings[m].data_][front(last.rings[m])]
                  /\ arrays[rings[n].data_][back(rings[n])] =
                         last.arrays[last.rings[m].data_][back(last.rings[m])]
            /\ rings[n].data_ = n

\* ---------------------------------------------------- a heap_span at work
\* a heap_span over an int array of any contents, the first sz elements
\* live; last.made tells whether make_heap() has been called
MaxHeap == MaxCapacity + 2

HeapValues == 0 .. MaxVal

InitHeap ==
    /\ impl = "heap_span.h"
    /\ T = "int"
    /\ \E cap \in 1 .. MaxHeap : \E sz \in 0 .. cap :
          /\ rv = heap_span_partial(cap, sz)
          /\ buffer \in [Slots(cap) -> HeapValues]
    /\ created = 0 /\ released = <<>> /\ cleared = FALSE
    /\ last = [op |-> "none", v |-> Null, rv |-> rv, buf |-> buffer,
               ret |-> Void, rel |-> <<>>, made |-> FALSE]
    /\ ref = <<>> /\ stale = {}
    /\ Parked

HeapCall(op, v, res, made) ==
    /\ rv' = res.rv
    /\ buffer' = res.buf
    /\ last' = [op |-> op, v |-> v, rv |-> rv, buf |-> buffer,
                ret |-> Void, rel |-> <<>>, made |-> made]
    /\ UNCHANGED <<impl, T, created, released, cleared, ref, stale>>
    /\ UNCHANGED others

MakeHeap ==
    /\ ~last.made
    /\ HeapCall("make_heap", Null, make_heap(rv, buffer), TRUE)

HeapPush ==
    /\ last.made
    /\ \E v \in HeapValues : HeapCall("push", v, push(rv, buffer, v), TRUE)

HeapEmplace ==
    /\ last.made
    /\ \E v \in HeapValues :
          HeapCall("emplace", v, emplace(rv, buffer, v), TRUE)

HeapPop ==
    /\ last.made
    /\ assert_not_empty(rv)
    /\ HeapCall("pop", Null, pop(rv, buffer), TRUE)

NextHeap == MakeHeap \/ HeapPush \/ HeapEmplace \/ HeapPop

SpecHeap == InitHeap /\ [][NextHeap]_vars

\* how often x occurs among the live elements
Live(h, buf, x) == Cardinality({i \in 0 .. h.size_ - 1 : buf[i] = x})

\* the live elements are those before the call, less `out`, plus `in`
Exchanged(out, in) ==
    \A x \in HeapValues :
        Live(rv, buffer, x) + (IF x \in out THEN 1 ELSE 0)
            = Live(last.rv, last.buf, x) + (IF x \in in THEN 1 ELSE 0)

\* C36: after make_heap() and any pushes, emplaces and pops (pops on a
\* non-empty heap only) no live element is less than its parent, so top() is
\* a least live element; a push on a full heap_span puts the value in place
\* of the former top and leaves size() at capacity(); a push on one that is
\* not full adds the value, a pop removes the former top, and make_heap()
\* keeps the live elements.
C36_HeapOrder ==
    last.made =>
        /\ \A i \in 1 .. size(rv) - 1 :
              ~less_(buffer[i], buffer[parent_(i)])
        /\ \A i \in 0 .. size(rv) - 1 : ~less_(buffer[i], buffer[top(rv)])
        /\ size(rv) <= capacity(rv)
        /\ (last.op \in {"push", "emplace"} /\ full(last.rv)) =>
              /\ size(rv) = capacity(rv)
              /\ Exchanged({last.buf[top(last.rv)]}, {last.v})
        /\ (last.op \in {"push", "emplace"} /\ ~full(last.rv)) =>
              /\ size(rv) = size(last.rv) + 1
              /\ Exchanged({}, {last.v})
        /\ last.op = "pop" =>
              /\ size(rv) = size(last.rv) - 1
              /\ Exchanged({last.buf[top(last.rv)]}, {})
        /\ last.op = "make_heap" =>
              /\ size(rv) = size(last.rv)
              /\ Exchanged({}, {})

\* a push on a full heap of five whose value sinks two levels, past the
\* smaller of two children each time
C36_Witness ==
    /\ last.made /\ last.op = "push" /\ full(last.rv)
    /\ capacity(rv) = 5 /\ last.v = 2
    /\ buffer[0] = 0 /\ last.buf[0] = 0
    /\ buffer[1] = 1 /\ buffer[2] = 1
    /\ last.buf[3] = 1 /\ last.buf[4] = 2 /\ buffer[3] = 2

====
